---- MODULE Spec2Model ----
(***************************************************************************)
(* Content production pipeline: chapter extraction (stage 4), sentence     *)
(* segmentation with identity assignment (stage 5) and translation         *)
(* (stage 7).  File names, directory names and audio file names are real   *)
(* strings, built and parsed the way the Python code builds and parses     *)
(* them.                                                                   *)
(***************************************************************************)
EXTENDS Integers, Sequences, FiniteSets, TLC

(***************************************************************************)
(* Bounds of the model.                                                    *)
(***************************************************************************)
\* longest book text, in lines
MaxLines == 5

\* longest book text given to stage 4 alone, in lines
MaxExtractLines == 4

\* longest chapter title, in words
MaxWords == 4

(***************************************************************************)
(* Strings.                                                                *)
(***************************************************************************)
\* The printable ASCII characters, from code point 32 to 126.  A string
\* constant cannot hold the backquote (96), whose place a tab holds.
Ascii ==
  <<
     " ", "!", "\"", "#", "$", "%", "&", "'",
     "(", ")", "*", "+", ",", "-", ".", "/",
     "0", "1", "2", "3", "4", "5", "6", "7",
     "8", "9", ":", ";", "<", "=", ">", "?",
     "@", "A", "B", "C", "D", "E", "F", "G",
     "H", "I", "J", "K", "L", "M", "N", "O",
     "P", "Q", "R", "S", "T", "U", "V", "W",
     "X", "Y", "Z", "[", "\\", "]", "^", "_",
     "\t", "a", "b", "c", "d", "e", "f", "g",
     "h", "i", "j", "k", "l", "m", "n", "o",
     "p", "q", "r", "s", "t", "u", "v", "w",
     "x", "y", "z", "{", "|", "}", "~"
  >>

\* The code point of each of these characters.
CodePoint ==
  [c \in {Ascii[i] : i \in 1..95} |-> 31 + (CHOOSE i \in 1..95 : Ascii[i] = c)]

\* ord(c) of Python for a printable ASCII character.
Ord(c) == CodePoint[c]

\* chr(n) of Python for a printable ASCII character.
Chr(n) == Ascii[n - 31]

IsDigit(c) == c \in {"0", "1", "2", "3", "4", "5", "6", "7", "8", "9"}

DigitVal(c) == Ord(c) - 48

\* str < str of Python: lexicographic by code point, a proper prefix first.
RECURSIVE StrLess(_, _)
StrLess(a, b) ==
  IF Len(b) = 0 THEN FALSE
  ELSE IF Len(a) = 0 THEN TRUE
  ELSE IF SubSeq(a, 1, 1) = SubSeq(b, 1, 1) THEN StrLess(Tail(a), Tail(b))
  ELSE Ord(SubSeq(a, 1, 1)) < Ord(SubSeq(b, 1, 1))

StartsWith(s, p) == Len(s) >= Len(p) /\ SubSeq(s, 1, Len(p)) = p

EndsWith(s, p) ==
  Len(s) >= Len(p) /\ SubSeq(s, Len(s) - Len(p) + 1, Len(s)) = p

\* Length of the longest prefix of s made of decimal digits: what \d+ (or
\* \d*) consumes at the start of s.
RECURSIVE DigitRun(_)
DigitRun(s) ==
  IF Len(s) > 0 /\ IsDigit(SubSeq(s, 1, 1)) THEN 1 + DigitRun(Tail(s)) ELSE 0

\* int(s) of Python for a string of decimal digits.
RECURSIVE ParseInt(_)
ParseInt(s) ==
  IF Len(s) = 0 THEN 0
  ELSE 10 * ParseInt(SubSeq(s, 1, Len(s) - 1))
         + DigitVal(SubSeq(s, Len(s), Len(s)))

\* Number of decimal digits of n, n >= 0.
RECURSIVE NumDigits(_)
NumDigits(n) == IF n < 10 THEN 1 ELSE 1 + NumDigits(n \div 10)

\* w zeros.
RECURSIVE Zeros(_)
Zeros(w) == IF w <= 0 THEN "" ELSE "0" \o Zeros(w - 1)

\* format(n, "07d") of Python: decimal, left-padded with zeros to at least
\* seven digits, longer when n needs more.
Pad7(n) == Zeros(7 - NumDigits(n)) \o ToString(n)

\* The lower-case letter of each upper-case letter, and the reverse.
ToLower == [c \in {Chr(n) : n \in 65..90} |-> Chr(Ord(c) + 32)]

ToUpper == [c \in {Chr(n) : n \in 97..122} |-> Chr(Ord(c) - 32)]

\* str.lower() and str.upper() on one character.
LowerChar(c) == IF c \in DOMAIN ToLower THEN ToLower[c] ELSE c

UpperChar(c) == IF c \in DOMAIN ToUpper THEN ToUpper[c] ELSE c

\* str.lower()
RECURSIVE Lower(_)
Lower(s) ==
  IF Len(s) = 0 THEN "" ELSE LowerChar(SubSeq(s, 1, 1)) \o Lower(Tail(s))

\* str.capitalize(): first character upper-cased, the rest lower-cased.
Capitalize(s) ==
  IF Len(s) = 0 THEN "" ELSE UpperChar(SubSeq(s, 1, 1)) \o Lower(Tail(s))

\* str.split(): the maximal runs of non-blank characters.
RECURSIVE SplitWords(_, _)
SplitWords(s, cur) ==
  IF Len(s) = 0 THEN (IF cur = "" THEN <<>> ELSE <<cur>>)
  ELSE IF SubSeq(s, 1, 1) = " "
       THEN (IF cur = "" THEN <<>> ELSE <<cur>>) \o SplitWords(Tail(s), "")
       ELSE SplitWords(Tail(s), cur \o SubSeq(s, 1, 1))

\* " ".join(words)
RECURSIVE JoinWords(_)
JoinWords(ws) ==
  IF Len(ws) = 0 THEN ""
  ELSE IF Len(ws) = 1 THEN ws[1]
  ELSE ws[1] \o " " \o JoinWords(Tail(ws))

exceptions ==
  {"of", "and", "the", "in", "on", "at", "to", "for", "with", "a", "an"}

\* title_case of both stages: every word capitalized, except that a minor
\* word that is not the first word is lower-cased.
\* Every word capitalized.
title_case_plain(text) ==
  LET words == SplitWords(text, "")
  IN  JoinWords([i \in 1..Len(words) |-> Capitalize(words[i])])

title_case(text) ==
  LET words == SplitWords(text, "")
  IN  JoinWords([i \in 1..Len(words) |->
                   IF Lower(words[i]) \notin exceptions \/ i = 1
                   THEN Capitalize(words[i])
                   ELSE Lower(words[i])])

\* sanitize_filename of stage 4: the characters \ / * ? : " < > | removed.
RECURSIVE sanitize_filename(_)
sanitize_filename(name) ==
  IF Len(name) = 0 THEN ""
  ELSE (IF SubSeq(name, 1, 1) \in {"\\", "/", "*", "?", ":", "\"", "<", ">", "|"}
        THEN "" ELSE SubSeq(name, 1, 1)) \o sanitize_filename(Tail(name))

(***************************************************************************)
(* Text lines.  A line of the book text is a record: kind tells which of   *)
(* the marker patterns the line matches (SUBBOOK, CHAPTER, REF), or that   *)
(* it is blank (BLANK) or any other text (TEXT); val is the stripped group *)
(* the marker pattern captures, or the stripped text; segs is what the     *)
(* sentence-boundary detector yields for the line (doc.sents); at is the   *)
(* line's number in the book text, kept to tell reading order.  The REF    *)
(* marker of book line i has the locator 1:i, so that the markers of a     *)
(* book differ from each other, as verse numbers do.                       *)
(***************************************************************************)
Line(kind, val, segs) == [kind |-> kind, val |-> val, segs |-> segs, at |-> 0]

SubbookLine == Line("SUBBOOK", "Alma", <<>>)

ChapterLine == Line("CHAPTER", "song of the sea", <<>>)

RefLine == Line("REF", "1:0", <<>>)

TextLines ==
  { Line("TEXT", "Third one here.", <<"Third one here.">>),
    Line("TEXT", "Hello world. Second sentence.",
         <<"Hello world.", "Second sentence.">>) }

BlankLine == Line("BLANK", "", <<>>)

LineAlphabet == {SubbookLine, ChapterLine, RefLine, BlankLine} \cup TextLines

\* The lines b of a book text, each numbered.
Numbered(b) ==
  [i \in 1..Len(b) |->
     [b[i] EXCEPT !.at = i,
                  !.val = IF b[i].kind = "REF" THEN "1:" \o ToString(i) ELSE @]]

\* The book texts are those of at most MaxLines lines that begin with the
\* marker of their first subbook or chapter.

\* Command-line arguments of stage 5.
language == "en-US"

book_code == "BOOKM"

VARIABLES
  pc,                     \* stage of the pipeline
  lines,                  \* stage 4: the lines of the book text
  pos,                    \* stage 4: number of the next line to scan
  current_subbook_index,  \* stage 4
  current_chapter,        \* stage 4: <<>> for None, <<title>> otherwise
  chapter_lines,          \* stage 4
  subbook_detected,       \* stage 4
  current_output_dir,     \* stage 4: "" for output_dir, or a directory in it
  dirs,                   \* directories of the chapter text tree
  files                   \* chapter text files: [dir, name, lines]

extractVars ==
  <<lines, pos, current_subbook_index, current_chapter, chapter_lines,
    subbook_detected, current_output_dir, dirs, files>>

VARIABLES
  chapter_files,       \* stage 5: the sorted list of chapter text files
  file_idx,            \* stage 5: position of the loop in chapter_files
  use_default_subbook, \* stage 5
  global_counter,      \* stage 5: global_counter["value"]
  uuid,                \* number of identifiers drawn from uuid4 so far
  produced,            \* stage 5: one entry per chapter file visited
  content              \* content JSON files: [folder, chapter, name, data]

segmentVars ==
  <<chapter_files, file_idx, use_default_subbook, global_counter, uuid,
    produced, content>>

VARIABLES
  json_files,            \* stage 7: native content files not yet processed
  json_file,             \* stage 7: the native content file being processed
  target_language_codes, \* stage 7: command-line argument
  target_idx,            \* stage 7: position of the loop over the targets
  heap,                  \* stage 7: the objects in memory, by address
  native_content,        \* stage 7: address of the native record, 0 if none
  translated_content,    \* stage 7: address of the current copy, 0 if none
  cursor,                \* stage 7: position of translate_content's loops
  copies,                \* the copies made of native_content: [target, root]
  translated             \* translated content files

translateVars ==
  <<json_files, json_file, target_language_codes, target_idx, heap,
    native_content, translated_content, cursor, copies, translated>>

VARIABLES
  structure              \* stage 6: <<>>, or the structure record written

assembleVars == <<structure>>

VARIABLES
  audio_queue,           \* stage 8: content files not yet processed
  audio_json,            \* stage 8: <<>>, or the content file being processed
  audio_cursor,          \* stage 8: position of the loops over the sentences
  attempts,              \* the calls of generate_audio so far, in order
  audio_dirs,            \* directories made below the Audio folders
  audio,                 \* audio files: [lang, folder, chapter, name]
  audio_unread,          \* content files stage 8 could not read
  missing_files          \* stage 10: <<>>, or << what verify_files reports >>

audioVars ==
  <<audio_queue, audio_json, audio_cursor, attempts, audio_dirs, audio,
    audio_unread, missing_files>>

VARIABLES
  serialized,            \* whether the calls run one after the other
  calls                  \* the calls of process_chapter_file on one counter

callVars == <<serialized, calls>>

vars ==
  <<pc, extractVars, segmentVars, translateVars, assembleVars, audioVars,
    callVars>>

\* str.strip() of the joined chapter lines, as far as whole lines go: the
\* blank lines at both ends are gone.
RECURSIVE StripBlankLines(_)
StripBlankLines(ls) ==
  IF Len(ls) = 0 THEN ls
  ELSE IF ls[1].kind = "BLANK" THEN StripBlankLines(Tail(ls))
  ELSE IF ls[Len(ls)].kind = "BLANK"
       THEN StripBlankLines(SubSeq(ls, 1, Len(ls) - 1))
  ELSE ls

\* Path.glob("chapter*.txt") on a file name.
IsChapterTxt(name) == StartsWith(name, "chapter") /\ EndsWith(name, ".txt")

\* get_chapter_number: one more than the number of chapter files in the
\* directory.
get_chapter_number(fs, chapter_dir) ==
  Cardinality({f \in fs : f.dir = chapter_dir /\ IsChapterTxt(f.name)}) + 1

\* write_current_chapter: the files after the call.  Nothing is written for
\* an empty title or an empty list of lines; otherwise the file chapterN.txt
\* holds the title-cased title, a blank line and the stripped content.
write_current_chapter(fs, subbook_dir, chapter_title, chapter_lines_) ==
  IF chapter_title = "" \/ Len(chapter_lines_) = 0 THEN fs
  ELSE LET chapter_number == get_chapter_number(fs, subbook_dir)
           filename == "chapter" \o ToString(chapter_number) \o ".txt"
           file == [dir |-> subbook_dir, name |-> filename,
                    lines |-> <<Line("TEXT", title_case(chapter_title), <<>>),
                                BlankLine>>
                                \o StripBlankLines(chapter_lines_)]
       IN  {f \in fs : ~(f.dir = subbook_dir /\ f.name = filename)}
             \cup {file}

ChapterInProgress == Len(current_chapter) > 0 /\ Len(chapter_lines) > 0

\* A directory name that counts the subbooks from 0.
SubbookDirName_from_zero(index, subbook_title) ==
  ToString(index - 1) \o "-" \o sanitize_filename(subbook_title)

\* subbook_dir_name (line 137): the subbook's number, a dash and the
\* sanitized title.
SubbookDirName(index, subbook_title) ==
  ToString(index) \o "-" \o sanitize_filename(subbook_title)

\* extract_chapters, one line of the loop: a SUBBOOK marker.
ExtractSubbook ==
  /\ pc = "extract" /\ pos <= Len(lines)
  /\ lines[pos].kind = "SUBBOOK"
  /\ IF ChapterInProgress
     THEN /\ files' = write_current_chapter(files, current_output_dir,
                                            current_chapter[1], chapter_lines)
          /\ chapter_lines' = <<>>
          /\ current_chapter' = <<>>
     ELSE UNCHANGED <<files, chapter_lines, current_chapter>>
  /\ current_subbook_index' = current_subbook_index + 1
  /\ subbook_detected' = TRUE
  /\ current_output_dir' =
       SubbookDirName(current_subbook_index + 1, lines[pos].val)
  /\ dirs' = dirs \cup {current_output_dir'}
  /\ pos' = pos + 1
  /\ UNCHANGED <<pc, lines, segmentVars, translateVars, assembleVars, audioVars, callVars>>

\* extract_chapters, one line of the loop: a CHAPTER marker.
ExtractChapter ==
  /\ pc = "extract" /\ pos <= Len(lines)
  /\ lines[pos].kind = "CHAPTER"
  /\ IF ChapterInProgress
     THEN /\ files' = write_current_chapter(files, current_output_dir,
                                            current_chapter[1], chapter_lines)
          /\ chapter_lines' = <<>>
     ELSE UNCHANGED <<files, chapter_lines>>
  /\ current_chapter' = <<lines[pos].val>>
  /\ pos' = pos + 1
  /\ UNCHANGED <<pc, lines, current_subbook_index, subbook_detected,
                 current_output_dir, dirs, segmentVars, translateVars, assembleVars, audioVars, callVars>>

\* Every line kept, a chapter open or not.
AccumulateLine_always(current_chapter_, chapter_lines_, line) ==
  Append(chapter_lines_, line)

\* Lines 155-157: the line is added to the chapter content when a chapter
\* is open, and dropped otherwise.
AccumulateLine(current_chapter_, chapter_lines_, line) ==
  IF Len(current_chapter_) > 0 THEN Append(chapter_lines_, line)
  ELSE chapter_lines_

\* extract_chapters, one line of the loop: any other line.
ExtractBody ==
  /\ pc = "extract" /\ pos <= Len(lines)
  /\ lines[pos].kind \notin {"SUBBOOK", "CHAPTER"}
  /\ chapter_lines' = AccumulateLine(current_chapter, chapter_lines,
                                      lines[pos])
  /\ pos' = pos + 1
  /\ UNCHANGED <<pc, lines, current_subbook_index, current_chapter,
                 subbook_detected, current_output_dir, dirs, files,
                 segmentVars, translateVars, assembleVars, audioVars, callVars>>

\* extract_chapters after the loop: the remaining chapter is written.
ExtractFinish ==
  /\ pc = "extract" /\ pos > Len(lines)
  /\ files' = IF ChapterInProgress
              THEN write_current_chapter(files, current_output_dir,
                                         current_chapter[1], chapter_lines)
              ELSE files
  /\ pc' = "extracted"
  /\ UNCHANGED <<lines, pos, current_subbook_index, current_chapter,
                 chapter_lines, subbook_detected, current_output_dir, dirs,
                 segmentVars, translateVars, assembleVars, audioVars, callVars>>

(***************************************************************************)
(* Stage 5: sentence segmentation and identity assignment.                 *)
(***************************************************************************)
\* str.strip(), for the blanks at both ends.
RECURSIVE Strip(_)
Strip(t) ==
  IF Len(t) = 0 THEN t
  ELSE IF SubSeq(t, 1, 1) = " " THEN Strip(Tail(t))
  ELSE IF SubSeq(t, Len(t), Len(t)) = " "
       THEN Strip(SubSeq(t, 1, Len(t) - 1))
  ELSE t

\* create_audio_filename with the paragraph and sentence numbers swapped.
create_audio_filename_swapped(sequential_index, book_code_, subbook_num, chapter_num, paragraph_num, sentence_num, language_) ==
  Pad7(sequential_index) \o "_" \o book_code_
    \o "_S" \o ToString(subbook_num)
    \o "_C" \o ToString(chapter_num)
    \o "_P" \o ToString(sentence_num)
    \o "_S" \o ToString(paragraph_num)
    \o "_" \o language_ \o ".aac"

\* create_audio_filename without the sequential index.
create_audio_filename_local(sequential_index, book_code_, subbook_num, chapter_num, paragraph_num, sentence_num, language_) ==
  Pad7(0) \o "_" \o book_code_
    \o "_S" \o ToString(subbook_num)
    \o "_C" \o ToString(chapter_num)
    \o "_P" \o ToString(paragraph_num)
    \o "_S" \o ToString(sentence_num)
    \o "_" \o language_ \o ".aac"

\* create_audio_filename
create_audio_filename(sequential_index, book_code_, subbook_num, chapter_num, paragraph_num, sentence_num, language_) ==
  Pad7(sequential_index) \o "_" \o book_code_
    \o "_S" \o ToString(subbook_num)
    \o "_C" \o ToString(chapter_num)
    \o "_P" \o ToString(paragraph_num)
    \o "_S" \o ToString(sentence_num)
    \o "_" \o language_ \o ".aac"

\* parse_paragraphs: the text split on runs of blank lines; cur is the
\* block being gathered.
RECURSIVE parse_paragraphs(_, _)
parse_paragraphs(text_, cur) ==
  IF Len(text_) = 0 THEN (IF Len(cur) = 0 THEN <<>> ELSE <<cur>>)
  ELSE IF text_[1].kind = "BLANK"
       THEN (IF Len(cur) = 0 THEN <<>> ELSE <<cur>>)
              \o parse_paragraphs(Tail(text_), <<>>)
       ELSE parse_paragraphs(Tail(text_), Append(cur, text_[1]))

\* The detector's sentences stripped, the empty ones kept, no fallback.
parse_sentences_unfiltered(line) ==
  [i \in 1..Len(line.segs) |-> Strip(line.segs[i])]

\* parse_sentences: the detector's sentences, stripped, the empty ones
\* dropped; the whole stripped line when none is left.
parse_sentences(line) ==
  LET stripped == [i \in 1..Len(line.segs) |-> Strip(line.segs[i])]
      sentences == SelectSeq(stripped, LAMBDA t : t # "")
  IN  IF Len(sentences) > 0 THEN sentences ELSE <<Strip(line.val)>>

\* Length of the longest suffix of s made of decimal digits.
RECURSIVE TrailingDigitRun(_)
TrailingDigitRun(s) ==
  IF Len(s) > 0 /\ IsDigit(SubSeq(s, Len(s), Len(s)))
  THEN 1 + TrailingDigitRun(SubSeq(s, 1, Len(s) - 1))
  ELSE 0

\* re.search(r'chapter(\d+)\.txt$', name, re.IGNORECASE): the number in
\* the match, 0 when the name does not match.  The pattern is anchored at
\* the end of the name: the name ends with .txt, the group is the whole run
\* of digits before it, and the word chapter comes right before the run.
ChapterNumberOf(name) ==
  LET n == Len(name)
      stem == SubSeq(name, 1, n - 4)
      d == TrailingDigitRun(stem)
      m == Len(stem) - d
  IN  IF /\ n >= 4 /\ Lower(SubSeq(name, n - 3, n)) = ".txt"
         /\ d > 0 /\ m >= 7
         /\ Lower(SubSeq(stem, m - 6, m)) = "chapter"
      THEN ParseInt(SubSeq(stem, m + 1, Len(stem)))
      ELSE 0

\* global_counter = {"value": 1}
InitialCounter == 1

\* The counter left as it is.
IncrementCounter_stuck(value) == value

\* global_counter["value"] += 1
IncrementCounter(value) == value + 1

\* The reference of the chapter before kept.
InitialReference_carried(carried) == carried

\* current_reference = "" at the start of a chapter, whatever reference
\* the chapter processed before it ended with.
InitialReference(carried) == ""

\* The reference cleared at each paragraph.
ReferenceAtParagraphStart_cleared(current_reference) == ""

\* The reference a paragraph starts with: the one the paragraph before it
\* ended with (nothing clears it between paragraphs).
ReferenceAtParagraphStart(current_reference) == current_reference

\* The reference after a sentence was created: unchanged.
ReferenceAfterSentence(current_reference) == current_reference

\* Every paragraph kept.
KeepParagraph_always(paragraph_dict) == TRUE

\* paragraph_dict["sentences"] and chapter_dict["paragraphs"].append(...):
\* the paragraph is kept when it has a sentence.
KeepParagraph(paragraph_dict) == Len(paragraph_dict.sentences) > 0

\* The inner loop over the sentences of one line (lines 175-197).  st holds
\* the paragraph's sentences so far, the reference, the counter and the
\* number of identifiers drawn; origin is not a field of the record: it
\* names the book line and segment the sentence came from.
RECURSIVE AddSentences(_, _, _, _)
AddSentences(st, sentence_texts, local_idx, c) ==
  IF local_idx > Len(sentence_texts) THEN st
  ELSE LET sentence_dict ==
             [sentenceID |-> st.uuid + 1,
              sentenceIndex |-> local_idx,
              globalSentenceIndex |-> st.counter,
              reference |-> st.current_reference,
              text |-> Strip(sentence_texts[local_idx]),
              audioFile |->
                create_audio_filename(st.counter, book_code, c.subbook_num,
                                      c.chapter_number, c.para_index,
                                      local_idx, language),
              origin |-> <<c.at, local_idx>>]
       IN  AddSentences(
             [st EXCEPT !.sentences = Append(@, sentence_dict),
                        !.uuid = @ + 1,
                        !.counter = IncrementCounter(@),
                        !.current_reference = ReferenceAfterSentence(@)],
             sentence_texts, local_idx + 1, c)

\* The loop over the lines of one paragraph (lines 163-197).
RECURSIVE ProcessParaLines(_, _, _)
ProcessParaLines(st, para_lines, c) ==
  IF Len(para_lines) = 0 THEN st
  ELSE LET line == para_lines[1]
       IN  IF line.kind = "BLANK"
           THEN ProcessParaLines(st, Tail(para_lines), c)
           ELSE IF line.kind = "REF"
           THEN ProcessParaLines([st EXCEPT !.current_reference = line.val],
                                 Tail(para_lines), c)
           ELSE ProcessParaLines(
                  AddSentences(st, parse_sentences(line), 1,
                               [c EXCEPT !.at = line.at]),
                  Tail(para_lines), c)

\* The loop over the paragraphs of one chapter (lines 153-200).  ch holds
\* the paragraphs kept so far, the reference, the counter and the number of
\* identifiers drawn.
RECURSIVE ProcessParagraphs(_, _, _, _)
ProcessParagraphs(ch, paragraphs_text, para_index, c) ==
  IF para_index > Len(paragraphs_text) THEN ch
  ELSE LET st == ProcessParaLines(
                   [sentences |-> <<>>,
                    current_reference |->
                      ReferenceAtParagraphStart(ch.current_reference),
                    counter |-> ch.counter,
                    uuid |-> ch.uuid + 1],
                   paragraphs_text[para_index],
                   [c EXCEPT !.para_index = para_index])
           paragraph_dict == [paragraphID |-> ch.uuid + 1,
                              paragraphIndex |-> para_index,
                              sentences |-> st.sentences]
       IN  ProcessParagraphs(
             [paragraphs |-> IF KeepParagraph(paragraph_dict)
                             THEN Append(ch.paragraphs, paragraph_dict)
                             ELSE ch.paragraphs,
              current_reference |-> st.current_reference,
              counter |-> st.counter,
              uuid |-> st.uuid],
             paragraphs_text, para_index + 1, c)

\* A skipped file that uses up a global index.
ReturnNone_counting(global_counter_, uuid_, carried) ==
  [data |-> <<>>, counter |-> global_counter_ + 1, uuid |-> uuid_,
   last_reference |-> carried]

\* process_chapter_file when the file cannot be read or is empty (lines
\* 120-129): None is returned, the counter is not touched and no
\* identifier is drawn.
ReturnNone(global_counter_, uuid_, carried) ==
  [data |-> <<>>, counter |-> global_counter_, uuid |-> uuid_,
   last_reference |-> carried]

\* process_chapter_file.  read is "ok", "unreadable" (open or readlines
\* raised) or "empty" (readlines returned no line).  The result holds the
\* returned record (<<>> for None), the counter and the number of
\* identifiers drawn after the call, and the reference that was current
\* when the loop over the paragraphs ended.
process_chapter_file(read, chapter_file, subbook_num, global_counter_, uuid_, carried) ==
  IF read # "ok" \/ Len(chapter_file.lines) = 0
  THEN ReturnNone(global_counter_, uuid_, carried)
  ELSE LET formatted_title == title_case(Strip(chapter_file.lines[1].val))
           paragraphs_text == parse_paragraphs(Tail(chapter_file.lines), <<>>)
           chapter_number == ChapterNumberOf(chapter_file.name)
           ch == ProcessParagraphs(
                   [paragraphs |-> <<>>,
                    current_reference |-> InitialReference(carried),
                    counter |-> global_counter_,
                    uuid |-> uuid_ + 1],
                   paragraphs_text, 1,
                   [subbook_num |-> subbook_num,
                    chapter_number |-> chapter_number,
                    para_index |-> 0, at |-> 0])
       IN  [data |-> << [chapterID |-> uuid_ + 1,
                         language |-> language,
                         chapterNumber |-> chapter_number,
                         chapterTitle |-> formatted_title,
                         paragraphs |-> ch.paragraphs] >>,
            counter |-> ch.counter,
            uuid |-> ch.uuid,
            last_reference |-> ch.current_reference]

\* The parts of a chapter text file's path below the input directory.
PathParts(f) == IF f.dir = "" THEN <<f.name>> ELSE <<f.dir, f.name>>

\* Path.__lt__: the paths compare as the lists of their parts, each part as
\* a string.
RECURSIVE PartsLess(_, _)
PartsLess(a, b) ==
  IF Len(b) = 0 THEN FALSE
  ELSE IF Len(a) = 0 THEN TRUE
  ELSE IF a[1] = b[1] THEN PartsLess(Tail(a), Tail(b))
  ELSE StrLess(a[1], b[1])

PathLess(f, g) == PartsLess(PathParts(f), PathParts(g))

\* sorted(...) of a set of files with distinct paths.
RECURSIVE SortedFiles(_)
SortedFiles(fs) ==
  IF fs = {} THEN <<>>
  ELSE LET m == CHOOSE f \in fs : \A g \in fs \ {f} : PathLess(f, g)
       IN  <<m>> \o SortedFiles(fs \ {m})

\* re.match(r'^\d+-', name)
IsSubbookFolder(name) ==
  LET n == DigitRun(name)
  IN  n > 0 /\ Len(name) > n /\ SubSeq(name, n + 1, n + 1) = "-"

\* get_subbook_info: the folder and number of a chapter file.  A file in a
\* folder named <digits>-<something> belongs to it; any other gets the
\* default.
get_subbook_info(chapter_file) ==
  LET parts == PathParts(chapter_file)
      n == DigitRun(parts[1])
  IN  IF Len(parts) > 1 /\ IsSubbookFolder(parts[1]) /\ Len(parts[1]) > n + 1
      THEN [folder |-> parts[1], num |-> ParseInt(SubSeq(parts[1], 1, n))]
      ELSE [folder |-> "1-Default", num |-> 1]

\* process_all_chapter_files before its loop (lines 237-246).
SegmentStart ==
  /\ pc = "extracted"
  /\ global_counter' = InitialCounter
  /\ use_default_subbook' = ({d \in dirs : IsSubbookFolder(d)} = {})
  /\ chapter_files' = SortedFiles({f \in files : IsChapterTxt(f.name)})
  /\ file_idx' = 1
  /\ pc' = "segment"
  /\ UNCHANGED <<extractVars, translateVars, assembleVars, audioVars, callVars, uuid, produced, content>>

ReadOutcomes == {"ok", "unreadable", "empty"}

\* The reference that was current when the chapter processed last ended,
\* "" before the first one.
LastReference ==
  IF Len(produced) = 0 THEN "" ELSE produced[Len(produced)].end_reference

\* The place of a chapter's content file below {language}/Content: the
\* subbook folder, the chapter folder and the file name (lines 261-270).
OutputPath(sub, chapter_number) ==
  [folder |-> sub.folder,
   chapter |-> "Chapter" \o ToString(chapter_number),
   name |-> book_code \o "_S" \o ToString(sub.num) \o "_C"
              \o ToString(chapter_number) \o "_" \o language \o ".json"]

\* json.dump of a record to its content file (lines 272-274): a file
\* already at that place is replaced.
WriteContent(content_, out, data) ==
  {w \in content_ : <<w.folder, w.chapter, w.name>>
                      # <<out.folder, out.chapter, out.name>>}
    \cup {[folder |-> out.folder, chapter |-> out.chapter,
           name |-> out.name, data |-> data]}

\* process_all_chapter_files, one chapter file of the loop (lines 248-276).
\* read is what opening and reading the file gives.  The entry appended to
\* produced records the call: the file, the outcome of the read, the
\* subbook number and output path used, the returned record (<<>> for
\* None) and the reference current when the call ended.
SegmentChapter(read) ==
  /\ pc = "segment" /\ file_idx <= Len(chapter_files)
  /\ LET chapter_file == chapter_files[file_idx]
         sub == IF use_default_subbook
                THEN [folder |-> "1-Default", num |-> 1]
                ELSE get_subbook_info(chapter_file)
         chapter_number == ChapterNumberOf(chapter_file.name)
         r == process_chapter_file(
                read,
                IF read = "empty" THEN [chapter_file EXCEPT !.lines = <<>>]
                                  ELSE chapter_file,
                sub.num, global_counter, uuid, LastReference)
         out == OutputPath(sub, chapter_number)
     IN  /\ global_counter' = r.counter
         /\ uuid' = r.uuid
         /\ produced' = Append(produced,
                               [file |-> [dir |-> chapter_file.dir,
                                          name |-> chapter_file.name],
                                read |-> read,
                                subbook_num |-> sub.num,
                                out |-> out,
                                data |-> r.data,
                                end_reference |-> r.last_reference])
         /\ content' = IF Len(r.data) = 0 THEN content
                        ELSE WriteContent(content, out, r.data[1])
  /\ file_idx' = file_idx + 1
  /\ UNCHANGED <<pc, extractVars, translateVars, assembleVars, audioVars, callVars, chapter_files,
               use_default_subbook>>

\* process_all_chapter_files returns when the loop is over.
SegmentFinish ==
  /\ pc = "segment" /\ file_idx > Len(chapter_files)
  /\ pc' = "segmented"
  /\ UNCHANGED <<extractVars, translateVars, assembleVars, audioVars, callVars, segmentVars>>

\* Stage 7 before it runs.
TranslateIdle ==
  /\ json_files = {}
  /\ json_file = <<>>
  /\ target_idx = 0
  /\ heap = <<>>
  /\ native_content = 0
  /\ translated_content = 0
  /\ cursor = 0
  /\ copies = <<>>
  /\ translated = {}

\* Stage 8 and stage 10 before they run.
AudioIdle ==
  /\ audio_queue = {}
  /\ audio_json = <<>>
  /\ audio_cursor = 0
  /\ attempts = <<>>
  /\ audio_dirs = {}
  /\ audio = {}
  /\ audio_unread = {}
  /\ missing_files = <<>>

\* No call of process_chapter_file apart from the loop of stage 5.
CallsIdle ==
  /\ serialized = TRUE
  /\ calls = <<>>

Init ==
  /\ pc = "extract"
  /\ \E n \in 0..MaxLines :
       \E b \in [1..n -> LineAlphabet] :
         /\ n > 0 => b[1].kind \in {"SUBBOOK", "CHAPTER"}
         /\ lines = Numbered(b)
  /\ pos = 1
  /\ current_subbook_index = 0
  /\ current_chapter = <<>>
  /\ chapter_lines = <<>>
  /\ subbook_detected = FALSE
  /\ current_output_dir = ""
  /\ dirs = {}
  /\ files = {}
  /\ chapter_files = <<>>
  /\ file_idx = 0
  /\ use_default_subbook = FALSE
  /\ global_counter = 0
  /\ uuid = 0
  /\ produced = <<>>
  /\ content = {}
  /\ target_language_codes = <<>>
  /\ TranslateIdle
  /\ structure = <<>>
  /\ AudioIdle /\ CallsIdle

\* Stage 4 alone, on any book text of at most MaxExtractLines lines.
InitExtract ==
  /\ pc = "extract"
  /\ \E n \in 0..MaxExtractLines :
       \E b \in [1..n -> LineAlphabet] : lines = Numbered(b)
  /\ pos = 1
  /\ current_subbook_index = 0
  /\ current_chapter = <<>>
  /\ chapter_lines = <<>>
  /\ subbook_detected = FALSE
  /\ current_output_dir = ""
  /\ dirs = {}
  /\ files = {}
  /\ chapter_files = <<>>
  /\ file_idx = 0
  /\ use_default_subbook = FALSE
  /\ global_counter = 0
  /\ uuid = 0
  /\ produced = <<>>
  /\ content = {}
  /\ target_language_codes = <<>>
  /\ TranslateIdle
  /\ structure = <<>>
  /\ AudioIdle /\ CallsIdle

NextExtract ==
  \/ ExtractSubbook
  \/ ExtractChapter
  \/ ExtractBody
  \/ ExtractFinish

SpecExtract == InitExtract /\ [][NextExtract]_vars

\* The words chapter titles are made of.
TitleWords == {"the", "bird", "song", "of", "sea", "AN"}

\* Stages 4 and 5 on a book of one chapter with one body line, the title
\* any list of at most MaxWords words.
InitTitle ==
  /\ pc = "extract"
  /\ \E n \in 1..MaxWords :
       \E ws \in [1..n -> TitleWords] :
         lines = Numbered(<<Line("CHAPTER", JoinWords(ws), <<>>),
                            Line("TEXT", "Third one here.",
                                 <<"Third one here.">>)>>)
  /\ pos = 1
  /\ current_subbook_index = 0
  /\ current_chapter = <<>>
  /\ chapter_lines = <<>>
  /\ subbook_detected = FALSE
  /\ current_output_dir = ""
  /\ dirs = {}
  /\ files = {}
  /\ chapter_files = <<>>
  /\ file_idx = 0
  /\ use_default_subbook = FALSE
  /\ global_counter = 0
  /\ uuid = 0
  /\ produced = <<>>
  /\ content = {}
  /\ target_language_codes = <<>>
  /\ TranslateIdle
  /\ structure = <<>>
  /\ AudioIdle /\ CallsIdle

NextTitle ==
  \/ ExtractChapter
  \/ ExtractBody
  \/ ExtractFinish
  \/ SegmentStart
  \/ \E read \in ReadOutcomes : SegmentChapter(read)
  \/ SegmentFinish

SpecTitle == InitTitle /\ [][NextTitle]_vars

Next ==
  \/ ExtractSubbook
  \/ ExtractChapter
  \/ ExtractBody
  \/ ExtractFinish
  \/ SegmentStart
  \/ \E read \in ReadOutcomes : SegmentChapter(read)
  \/ SegmentFinish

Spec == Init /\ [][Next]_vars

(***************************************************************************)
(* Properties of stage 5.                                                  *)
(***************************************************************************)
\* The sentences of a Chapter Record, in list order.
RECURSIVE ConcatSentences(_)
ConcatSentences(paragraphs) ==
  IF Len(paragraphs) = 0 THEN <<>>
  ELSE paragraphs[1].sentences \o ConcatSentences(Tail(paragraphs))

SentencesOf(entry) ==
  IF Len(entry.data) = 0 THEN <<>>
  ELSE ConcatSentences(entry.data[1].paragraphs)

\* The sentences of the run so far, in the order they were created.
RECURSIVE RunSentencesUpTo(_)
RunSentencesUpTo(n) ==
  IF n = 0 THEN <<>>
  ELSE RunSentencesUpTo(n - 1) \o SentencesOf(produced[n])

RunSentences == RunSentencesUpTo(Len(produced))

\* The entries of produced that hold a Chapter Record.
Recorded == {i \in 1..Len(produced) : Len(produced[i].data) > 0}

WithSentences == {i \in Recorded : Len(SentencesOf(produced[i])) > 0}

\* The chapter text file an entry of produced was read from.
FileOf(entry) ==
  CHOOSE f \in files : f.dir = entry.file.dir /\ f.name = entry.file.name

\* The REF marker lines of a chapter text file that come before book line
\* number at.
RefsBefore(f, at) ==
  {i \in 2..Len(f.lines) : f.lines[i].kind = "REF" /\ f.lines[i].at < at}

\* The locator of the last REF marker line of the file before book line
\* number at, "" when there is none.
ReferenceInForce(f, at) ==
  LET rs == RefsBefore(f, at)
  IN  IF rs = {} THEN ""
      ELSE f.lines[CHOOSE i \in rs : \A j \in rs : j <= i].val

\* C1: while and after process_all_chapter_files runs, the
\* globalSentenceIndex values of all sentences of all Chapter Records
\* produced are exactly 1..N, N the number of sentences, none repeated, and
\* the counter stands at N + 1: it started at 1 and was never reset.
C1_GlobalIndicesAreOneToN ==
  pc \in {"segment", "segmented"} =>
    LET ss == RunSentences
        N == Len(ss)
    IN  /\ {ss[i].globalSentenceIndex : i \in 1..N} = 1..N
        /\ \A i, j \in 1..N :
             i # j => ss[i].globalSentenceIndex # ss[j].globalSentenceIndex
        /\ global_counter = N + 1

\* A finished run of two chapters with sentences each.
C1_Witness ==
  /\ pc = "segmented"
  /\ Cardinality(WithSentences) >= 2
  /\ Len(RunSentences) >= 3

\* C2: global indices follow document order: of two sentences of one run,
\* the one that comes earlier in the book text has the smaller
\* globalSentenceIndex.
C2_IndicesFollowDocumentOrder ==
  LET ss == RunSentences
  IN  \A i, j \in 1..Len(ss) :
        (\/ ss[i].origin[1] < ss[j].origin[1]
         \/ /\ ss[i].origin[1] = ss[j].origin[1]
            /\ ss[i].origin[2] < ss[j].origin[2])
        => ss[i].globalSentenceIndex < ss[j].globalSentenceIndex

\* C3: in every paragraph of every Chapter Record, the sentenceIndex values
\* are 1, 2, ..., k in list order.
C3_SentenceIndexIsPosition ==
  \A e \in Recorded :
    LET ps == produced[e].data[1].paragraphs
    IN  \A p \in 1..Len(ps) :
          \A k \in 1..Len(ps[p].sentences) :
            ps[p].sentences[k].sentenceIndex = k

\* C4: in every Chapter Record, the paragraphIndex values of the paragraphs
\* list are 1, 2, ..., m in list order.
C4_ParagraphIndexIsPosition ==
  \A e \in Recorded :
    LET ps == produced[e].data[1].paragraphs
    IN  \A p \in 1..Len(ps) : ps[p].paragraphIndex = p

\* C5: every sentence's reference is the locator of the most recent REF
\* marker line of its chapter before the sentence's line, "" if there is
\* none; and no sentence comes from a REF marker line.
C5_ReferenceCarryForward ==
  \A e \in Recorded :
    LET ss == SentencesOf(produced[e])
        f == FileOf(produced[e])
    IN  \A k \in 1..Len(ss) :
          /\ ss[k].reference = ReferenceInForce(f, ss[k].origin[1])
          /\ lines[ss[k].origin[1]].kind = "TEXT"

\* A chapter in which a reference set in one paragraph is borne by a
\* sentence of a later paragraph, and in which a later marker supersedes an
\* earlier one.
C5_Witness ==
  \E e \in Recorded :
    LET ss == SentencesOf(produced[e])
        f == FileOf(produced[e])
    IN  /\ \E k \in 1..Len(ss) :
             LET rs == RefsBefore(f, ss[k].origin[1])
             IN  \E i \in rs :
                   /\ \A j \in rs : j <= i
                   /\ ss[k].reference = f.lines[i].val
                   /\ \E b \in (i + 1)..Len(f.lines) :
                        /\ f.lines[b].kind = "BLANK"
                        /\ f.lines[b].at < ss[k].origin[1]
        /\ \E k \in 1..Len(ss) :
             LET qs == RefsBefore(f, ss[k].origin[1])
             IN  \E i, j \in qs :
                   /\ i < j
                   /\ f.lines[i].val # f.lines[j].val
                   /\ ss[k].reference = f.lines[j].val

\* C6: the reference never leaks between chapters: whatever reference was
\* current when the chapter processed before it ended, a sentence that
\* precedes every REF marker of its own chapter has reference "".
C6_ReferenceDoesNotLeak ==
  \A e \in Recorded :
    e > 1 /\ produced[e - 1].end_reference # "" =>
      LET ss == SentencesOf(produced[e])
          f == FileOf(produced[e])
      IN  \A k \in 1..Len(ss) :
            RefsBefore(f, ss[k].origin[1]) = {} => ss[k].reference = ""

\* A chapter that ended with a reference in force, followed by a chapter
\* with a sentence before any of its markers.
C6_Witness ==
  \E e \in Recorded :
    /\ e > 1 /\ produced[e - 1].end_reference # ""
    /\ \E k \in 1..Len(SentencesOf(produced[e])) :
         /\ RefsBefore(FileOf(produced[e]),
                       SentencesOf(produced[e])[k].origin[1]) = {}
         /\ SentencesOf(produced[e])[k].reference = ""

\* The text blocks of a chapter text file: its content split on blank
\* lines.
BlocksOf(f) == parse_paragraphs(Tail(f.lines), <<>>)

HasText(block) == \E l \in 1..Len(block) : block[l].kind = "TEXT"

\* C7: no Chapter Record contains a paragraph without sentences: the record
\* has one paragraph for each text block with a sentence-bearing line, and
\* the reference a dropped block of REF markers set last is borne by the
\* sentences after it, up to the next marker.
C7_NoEmptyParagraph ==
  \A e \in Recorded :
    LET ps == produced[e].data[1].paragraphs
        ss == SentencesOf(produced[e])
        f == FileOf(produced[e])
        blocks == BlocksOf(f)
    IN  /\ \A p \in 1..Len(ps) : Len(ps[p].sentences) > 0
        /\ Len(ps) = Cardinality({b \in 1..Len(blocks) : HasText(blocks[b])})
        /\ \A b \in 1..Len(blocks) :
             ~HasText(blocks[b]) =>
               LET r == blocks[b][Len(blocks[b])]
               IN  \A k \in 1..Len(ss) :
                     (/\ ss[k].origin[1] > r.at
                      /\ \A i \in RefsBefore(f, ss[k].origin[1]) :
                           f.lines[i].at <= r.at)
                     => ss[k].reference = r.val

\* A record made from a block of REF markers only followed by a paragraph
\* whose sentence bears the reference the block set.
C7_Witness ==
  \E e \in Recorded :
    LET ss == SentencesOf(produced[e])
        f == FileOf(produced[e])
        blocks == BlocksOf(f)
    IN  \E b \in 1..Len(blocks) :
          /\ ~HasText(blocks[b])
          /\ \E k \in 1..Len(ss) :
               /\ ss[k].origin[1] > blocks[b][Len(blocks[b])].at
               /\ ss[k].reference = blocks[b][Len(blocks[b])].val
               /\ Len(produced[e].data[1].paragraphs) < Len(blocks)

\* str.split(sep) for a one-character separator.
RECURSIVE SplitOn(_, _, _)
SplitOn(t, sep, cur) ==
  IF Len(t) = 0 THEN <<cur>>
  ELSE IF SubSeq(t, 1, 1) = sep THEN <<cur>> \o SplitOn(Tail(t), sep, "")
  ELSE SplitOn(Tail(t), sep, cur \o SubSeq(t, 1, 1))

AllDigits(d) == Len(d) > 0 /\ DigitRun(d) = Len(d)

\* d is the decimal numeral of n without padding.
IsUnpadded(d, n) ==
  /\ AllDigits(d)
  /\ Len(d) = 1 \/ SubSeq(d, 1, 1) # "0"
  /\ ParseInt(d) = n

\* t is the letter followed by the unpadded decimal numeral of n.
IsTagged(t, letter, n) ==
  Len(t) >= 2 /\ SubSeq(t, 1, 1) = letter /\ IsUnpadded(Tail(t), n)

\* C8: every sentence's audioFile reads back, field by field, as the
\* record's own coordinates: seven digits that are its globalSentenceIndex,
\* the book code, S and the subbook number, C and the record's
\* chapterNumber, P and its paragraph's paragraphIndex, S and its
\* sentenceIndex, the record's language and .aac; and the coordinates
\* (42, BOOKM, 1, 3, 2, 5, en-US) give 0000042_BOOKM_S1_C3_P2_S5_en-US.aac.
C8_AudioFileFromOwnCoordinates ==
  /\ create_audio_filename(42, "BOOKM", 1, 3, 2, 5, "en-US")
       = "0000042_BOOKM_S1_C3_P2_S5_en-US.aac"
  /\ \A e \in Recorded :
       LET data == produced[e].data[1]
       IN  \A p \in 1..Len(data.paragraphs) :
             \A k \in 1..Len(data.paragraphs[p].sentences) :
               LET sn == data.paragraphs[p].sentences[k]
                   parts == SplitOn(sn.audioFile, "_", "")
               IN  /\ Len(parts) = 7
                   /\ Len(parts[1]) = 7 /\ AllDigits(parts[1])
                   /\ ParseInt(parts[1]) = sn.globalSentenceIndex
                   /\ parts[2] = book_code
                   /\ IsTagged(parts[3], "S", produced[e].subbook_num)
                   /\ IsTagged(parts[4], "C", data.chapterNumber)
                   /\ IsTagged(parts[5], "P",
                               data.paragraphs[p].paragraphIndex)
                   /\ IsTagged(parts[6], "S", sn.sentenceIndex)
                   /\ parts[7] = data.language \o ".aac"

\* A sentence whose coordinates differ from each other: the second
\* sentence of the first paragraph of a chapter 2.
C8_Witness ==
  \E e \in Recorded :
    LET data == produced[e].data[1]
    IN  /\ data.chapterNumber = 2
        /\ \E p \in 1..Len(data.paragraphs) :
             /\ data.paragraphs[p].paragraphIndex = 1
             /\ \E k \in 1..Len(data.paragraphs[p].sentences) :
                  /\ data.paragraphs[p].sentences[k].sentenceIndex = 2
                  /\ data.paragraphs[p].sentences[k].globalSentenceIndex > 2

\* The number of sentences created before entry e of produced.
SentencesBefore(e) == Len(RunSentencesUpTo(e - 1))

\* C9: a chapter file that cannot be read or is empty is skipped: the call
\* returns no record, the counter and the content files are as before the
\* call, and the loop goes on; when the run ends every chapter file was
\* visited, and the indices of each record continue from the last sentence
\* created before it.
C9_UnreadableFileIsSkipped ==
  /\ [][ (/\ pc = "segment"
          /\ Len(produced') = Len(produced) + 1
          /\ produced'[Len(produced')].read # "ok")
         => (/\ produced'[Len(produced')].data = <<>>
             /\ global_counter' = global_counter
             /\ content' = content
             /\ file_idx' = file_idx + 1
             /\ pc' = "segment") ]_vars
  /\ [](pc = "segmented" =>
          /\ Len(produced) = Len(chapter_files)
          /\ \A e \in WithSentences :
               SentencesOf(produced[e])[1].globalSentenceIndex
                 = SentencesBefore(e) + 1)

\* A finished run in which a chapter file was skipped and a chapter file
\* after it was processed, its record written.
C9_Witness ==
  /\ pc = "segmented"
  /\ \E i, j \in 1..Len(produced) :
       /\ i < j
       /\ produced[i].read # "ok"
       /\ j \in WithSentences
       /\ \E w \in content : w.data = produced[j].data[1]

(***************************************************************************)
(* Stage 7: the translator.                                                *)
(*                                                                         *)
(* The records the translator works on are objects in memory, changed in   *)
(* place through references.  heap is the sequence of the objects made so  *)
(* far; the address of an object is its position.  A chapter object holds  *)
(* the addresses of its paragraph objects in its paragraphs field, and a   *)
(* paragraph object the addresses of its sentence objects in its           *)
(* sentences field.  A record as written to a file holds the paragraphs    *)
(* and sentences themselves.                                               *)
(***************************************************************************)
MaxBody == 2

\* Command-line argument of stage 7.
native_language_code == "en-US"

\* language_map of main, the entries for the two target languages used.
language_map ==
  [code \in {"es-ES", "fr-FR"} |->
     IF code = "es-ES" THEN "Spanish" ELSE "French"]

\* Values of --target_languages, the native code dropped: two supported
\* languages, a code that language_map does not have, and one language.
TargetLists == {<<"es-ES", "fr-FR">>, <<"xx-XX", "es-ES">>, <<"fr-FR">>}

\* json.loads, paragraph by paragraph: the sentences of each paragraph and
\* then the paragraph become new objects after those of h.
RECURSIVE LoadParagraphs(_, _, _)
LoadParagraphs(h, paragraphs, addrs) ==
  IF Len(paragraphs) = 0 THEN [heap |-> h, addrs |-> addrs]
  ELSE LET para == paragraphs[1]
           h1 == h \o para.sentences
           obj == [para EXCEPT
                     !.sentences = [i \in 1..Len(para.sentences) |->
                                      Len(h) + i]]
       IN  LoadParagraphs(Append(h1, obj), Tail(paragraphs),
                          Append(addrs, Len(h1) + 1))

\* json.loads / json.load of a written record: every dict of it becomes a
\* new object.  The result is the heap after the call and the address of
\* the chapter object.
json_loads(h, record) ==
  LET r == LoadParagraphs(h, record.paragraphs, <<>>)
  IN  [heap |-> Append(r.heap, [record EXCEPT !.paragraphs = r.addrs]),
       root |-> Len(r.heap) + 1]

\* json.dumps / json.dump of the chapter object at root: the record with
\* the paragraphs and sentences its references lead to.
json_dumps(h, root) ==
  LET Para(a) == [h[a] EXCEPT
                    !.sentences = [j \in 1..Len(h[a].sentences) |->
                                     h[h[a].sentences[j]]]]
  IN  [h[root] EXCEPT
         !.paragraphs = [i \in 1..Len(h[root].paragraphs) |->
                           Para(h[root].paragraphs[i])]]

\* A copy of the chapter object alone: its paragraphs are those of the
\* original.
DeepCopy_shared(h, root) == [heap |-> Append(h, h[root]), root |-> Len(h) + 1]

\* json.loads(json.dumps(native_content)) (line 167).
DeepCopy(h, root) == json_loads(h, json_dumps(h, root))

\* The addresses of the sentence objects of the chapter object at root, in
\* the order of the loops over its paragraphs and their sentences.
RECURSIVE SentencesOfParagraphs(_, _)
SentencesOfParagraphs(h, paras) ==
  IF Len(paras) = 0 THEN <<>>
  ELSE h[paras[1]].sentences \o SentencesOfParagraphs(h, Tail(paras))

SentenceAddrs(h, root) == SentencesOfParagraphs(h, h[root].paragraphs)

\* re.sub(rf"_{re.escape(old)}<ext>$", f"_{new}<ext>", s): the ending
\* _<old><ext> of s becomes _<new><ext>; s is returned as it is when it
\* does not end so.
ReplaceCode(s, old, new, ext) ==
  IF EndsWith(s, "_" \o old \o ext)
  THEN SubSeq(s, 1, Len(s) - Len(old) - Len(ext)) \o new \o ext
  ELSE s

\* What the translation service may do with a request.
Responses == {"ok", "error"}

\* A failed call that hands back the text it was given.
translate_text_echo(text_, target_language, response) ==
  IF response = "ok" THEN Strip(target_language \o ": " \o text_) ELSE text_

\* translate_text: the stripped answer of the service, "" when the call
\* raised.  The answer to a text is written <language name>: <text>.
translate_text(text_, target_language, response) ==
  IF response = "ok" THEN Strip(target_language \o ": " \o text_) ELSE ""

\* process_sentence that also clears the reference of the sentence it
\* translates.
process_sentence_clearing(h, addr, target_language, response) ==
  LET sentence == h[addr]
      native_text == Strip(sentence.text)
  IN  IF native_text = "" THEN h
      ELSE IF target_language \notin DOMAIN language_map THEN h
      ELSE [h EXCEPT
              ![addr].text = translate_text(native_text,
                                            language_map[target_language],
                                            response),
              ![addr].reference = "",
              ![addr].audioFile =
                ReplaceCode(sentence.audioFile, native_language_code,
                            target_language, ".aac")]

\* process_sentence on the sentence object at addr: the heap after the
\* call.  Nothing changes when the sentence has no native text or the
\* target code is not in language_map.
process_sentence(h, addr, target_language, response) ==
  LET sentence == h[addr]
      native_text == Strip(sentence.text)
  IN  IF native_text = "" THEN h
      ELSE IF target_language \notin DOMAIN language_map THEN h
      ELSE LET translation ==
                 translate_text(native_text, language_map[target_language],
                                response)
           IN  [h EXCEPT
                  ![addr].text = translation,
                  ![addr].audioFile =
                    ReplaceCode(sentence.audioFile, native_language_code,
                                target_language, ".aac")]

\* No second pass over the audio file names.
RewriteAudio_none(h, addrs, target_language) == h

\* The loop of lines 173-177 over the sentence objects at addrs.
RECURSIVE RewriteAudio(_, _, _)
RewriteAudio(h, addrs, target_language) ==
  IF Len(addrs) = 0 THEN h
  ELSE RewriteAudio(
         [h EXCEPT ![addrs[1]].audioFile =
            ReplaceCode(@, native_language_code, target_language, ".aac")],
         Tail(addrs), target_language)

\* The name of the translated file (lines 179-181).
NewFilename(name, target_language) ==
  LET new_filename == ReplaceCode(name, native_language_code,
                                  target_language, ".json")
  IN  IF new_filename = name
      THEN (IF EndsWith(name, ".json")
            THEN SubSeq(name, 1, Len(name) - 5) ELSE name)
             \o "_" \o target_language \o ".json"
      ELSE new_filename

\* process_all_json_files before its loop (lines 203-205): the native
\* content files are those named ..._<native code>.json, in any case.
TranslateStart ==
  /\ pc = "segmented"
  /\ json_files' =
       {f \in content :
          EndsWith(Lower(f.name),
                   Lower("_" \o native_language_code \o ".json"))}
  /\ pc' = "translate"
  /\ UNCHANGED <<extractVars, segmentVars, assembleVars, audioVars, callVars, json_file, target_language_codes,
                 target_idx, heap, native_content, translated_content,
                 cursor, copies, translated>>

JsonReadOutcomes == {"ok", "unreadable"}

\* process_json_file up to its loop (lines 151-163), for any file not yet
\* processed (rglob gives them in no particular order).  A file that
\* cannot be read is left out.
TranslateOpenFile(read) ==
  /\ pc = "translate"
  /\ \E f \in json_files :
       /\ json_files' = json_files \ {f}
       /\ IF read = "ok"
          THEN LET r == json_loads(heap, f.data)
               IN  /\ json_file' = <<f>>
                   /\ heap' = r.heap
                   /\ native_content' = r.root
                   /\ target_idx' = 1
                   /\ pc' = "targets"
          ELSE UNCHANGED <<json_file, heap, native_content, target_idx, pc>>
  /\ UNCHANGED <<extractVars, segmentVars, assembleVars, audioVars, callVars, target_language_codes,
                 translated_content, cursor, copies, translated>>

\* process_json_file, the loop over the target languages: the copy is made
\* and its language set (lines 167-169).
TranslateCopy ==
  /\ pc = "targets" /\ target_idx <= Len(target_language_codes)
  /\ LET target_language == target_language_codes[target_idx]
         r == DeepCopy(heap, native_content)
     IN  /\ heap' = [r.heap EXCEPT ![r.root].language = target_language]
         /\ translated_content' = r.root
         /\ copies' = Append(copies, [target |-> target_language,
                                      root |-> r.root])
  /\ cursor' = 1
  /\ pc' = "sentences"
  /\ UNCHANGED <<extractVars, segmentVars, assembleVars, audioVars, callVars, json_files, json_file,
                 target_language_codes, target_idx, native_content,
                 translated>>

\* translate_content, one sentence of its loops (lines 138-140).
TranslateSentence(response) ==
  /\ pc = "sentences"
  /\ LET addrs == SentenceAddrs(heap, translated_content)
     IN  /\ cursor <= Len(addrs)
         /\ heap' = process_sentence(heap, addrs[cursor],
                                     target_language_codes[target_idx],
                                     response)
  /\ cursor' = cursor + 1
  /\ UNCHANGED <<pc, extractVars, segmentVars, assembleVars, audioVars, callVars, json_files, json_file,
                 target_language_codes, target_idx, native_content,
                 translated_content, copies, translated>>

\* process_json_file after translate_content returned: the audio file
\* names are rewritten and the copy is written to its file below
\* {target}/Content (lines 173-192); a file already there is replaced.
TranslateWrite ==
  /\ pc = "sentences"
  /\ LET addrs == SentenceAddrs(heap, translated_content)
         target_language == target_language_codes[target_idx]
         h == RewriteAudio(heap, addrs, target_language)
         new_filename == NewFilename(json_file[1].name, target_language)
         out == [language |-> target_language,
                 folder |-> json_file[1].folder,
                 chapter |-> json_file[1].chapter,
                 name |-> new_filename]
     IN  /\ cursor > Len(addrs)
         /\ heap' = h
         /\ translated' =
              {w \in translated :
                 <<w.language, w.folder, w.chapter, w.name>>
                   # <<out.language, out.folder, out.chapter, out.name>>}
                \cup {[language |-> out.language, folder |-> out.folder,
                       chapter |-> out.chapter, name |-> out.name,
                       data |-> json_dumps(h, translated_content)]}
  /\ target_idx' = target_idx + 1
  /\ pc' = "targets"
  /\ UNCHANGED <<extractVars, segmentVars, assembleVars, audioVars, callVars, json_files, json_file,
                 target_language_codes, native_content, translated_content,
                 cursor, copies>>

\* process_json_file returns when the loop over the targets is over.
TranslateFileDone ==
  /\ pc = "targets" /\ target_idx > Len(target_language_codes)
  /\ pc' = "translate"
  /\ UNCHANGED <<extractVars, segmentVars, translateVars, assembleVars, audioVars, callVars>>

\* process_all_json_files returns when every file was processed.
TranslateFinish ==
  /\ pc = "translate" /\ json_files = {}
  /\ pc' = "translated"
  /\ UNCHANGED <<extractVars, segmentVars, translateVars, assembleVars, audioVars, callVars>>

\* The lines a chapter body is made of.
BodyAlphabet == {RefLine, BlankLine} \cup TextLines

\* Where stages 4 and 5 end on the book of one CHAPTER marker and the body
\* lines b, every file read.
SegmentedBook(b) ==
  /\ pc = "segmented"
  /\ lines = Numbered(<<ChapterLine>> \o b)
  /\ pos = Len(lines) + 1
  /\ current_subbook_index = 0
  /\ current_chapter = <<lines[1].val>>
  /\ chapter_lines = Tail(lines)
  /\ subbook_detected = FALSE
  /\ current_output_dir = ""
  /\ dirs = {}
  /\ files = write_current_chapter({}, "", current_chapter[1], chapter_lines)
  /\ chapter_files = SortedFiles({f \in files : IsChapterTxt(f.name)})
  /\ file_idx = Len(chapter_files) + 1
  /\ use_default_subbook = TRUE
  /\ IF Len(chapter_files) = 0
     THEN /\ global_counter = InitialCounter
          /\ uuid = 0
          /\ produced = <<>>
          /\ content = {}
     ELSE LET chapter_file == chapter_files[1]
              sub == [folder |-> "1-Default", num |-> 1]
              out == OutputPath(sub, ChapterNumberOf(chapter_file.name))
              r == process_chapter_file("ok", chapter_file, sub.num,
                                        InitialCounter, 0, "")
          IN  /\ global_counter = r.counter
              /\ uuid = r.uuid
              /\ produced = << [file |-> [dir |-> chapter_file.dir,
                                          name |-> chapter_file.name],
                                read |-> "ok",
                                subbook_num |-> sub.num,
                                out |-> out,
                                data |-> r.data,
                                end_reference |-> r.last_reference] >>
              /\ content = WriteContent({}, out, r.data[1])

\* The translator starts where stages 4 and 5 ended on a book of one
\* CHAPTER marker and at most MaxBody body lines, every file read.
InitTranslate ==
  /\ \E n \in 0..MaxBody :
       \E b \in [1..n -> BodyAlphabet] : SegmentedBook(b)
  /\ target_language_codes \in TargetLists
  /\ TranslateIdle
  /\ structure = <<>>
  /\ AudioIdle /\ CallsIdle

NextTranslate ==
  \/ TranslateStart
  \/ \E read \in JsonReadOutcomes : TranslateOpenFile(read)
  \/ TranslateCopy
  \/ \E response \in Responses : TranslateSentence(response)
  \/ TranslateWrite
  \/ TranslateFileDone
  \/ TranslateFinish

SpecTranslate == InitTranslate /\ [][NextTranslate]_vars

(***************************************************************************)
(* Properties of stage 7.                                                  *)
(***************************************************************************)
\* The text and audioFile of the sentences of a record, in list order.
TextAndAudio(record) ==
  LET ss == ConcatSentences(record.paragraphs)
  IN  [i \in 1..Len(ss) |-> <<ss[i].text, ss[i].audioFile>>]

\* The addresses of all objects of the record at root.
ObjectsOf(h, root) ==
  {root} \cup {h[root].paragraphs[i] : i \in 1..Len(h[root].paragraphs)}
         \cup {SentenceAddrs(h, root)[i] :
                 i \in 1..Len(SentenceAddrs(h, root))}

\* The chapter objects in memory: the native record and the copies made.
Roots ==
  (IF native_content = 0 THEN {} ELSE {native_content})
    \cup {copies[i].root : i \in 1..Len(copies)}

\* C10: translating a native record leaves the text and audioFile of each of
\* its sentences as they were read from the file; the native record and the
\* copies made of it have no object in common; and a step that changes an
\* object changes an object of the copy being translated only, every other
\* copy and the native record reading after the step as before it.
C10_TranslationIndependence ==
  /\ [](native_content # 0 =>
          TextAndAudio(json_dumps(heap, native_content))
            = TextAndAudio(json_file[1].data))
  /\ [](\A r, q \in Roots :
          r # q => ObjectsOf(heap, r) \cap ObjectsOf(heap, q) = {})
  /\ [][ /\ \A a \in DOMAIN heap :
              heap'[a] # heap[a] =>
                /\ translated_content # 0
                /\ a \in ObjectsOf(heap, translated_content)
         /\ \A r \in Roots :
              r # translated_content =>
                json_dumps(heap', r) = json_dumps(heap, r) ]_vars

\* A finished run in which a native record was translated into two
\* languages: some sentence has a text in the first copy that is not the
\* native one, and a text in the second copy that is neither.
C10_Witness ==
  /\ pc = "translated"
  /\ Len(copies) = 2
  /\ copies[1].target # copies[2].target
  /\ LET nat == TextAndAudio(json_dumps(heap, native_content))
         one == TextAndAudio(json_dumps(heap, copies[1].root))
         two == TextAndAudio(json_dumps(heap, copies[2].root))
     IN  \E i \in 1..Len(nat) :
           /\ nat[i][1] # "" /\ one[i][1] # "" /\ two[i][1] # ""
           /\ one[i] # nat[i] /\ two[i] # nat[i]
           /\ one[i][1] # two[i][1] /\ one[i][2] # two[i][2]

\* The native content file a translated file was made from.
NativeOf(w) ==
  CHOOSE n \in content : n.folder = w.folder /\ n.chapter = w.chapter

\* The subbook number stage 5 used for the record of a native content file.
SubbookNumOf(n) ==
  LET e == CHOOSE i \in Recorded :
             /\ produced[i].out.folder = n.folder
             /\ produced[i].out.chapter = n.chapter
  IN  produced[e].subbook_num

\* C11: in every translated file, every sentence's audioFile is the native
\* sentence's audioFile with the ending _<native code>.aac replaced by
\* _<target code>.aac, which is the name create_audio_filename gives the
\* sentence's coordinates with the target code; this includes the
\* sentences whose translation was skipped or failed.
C11_AudioFileFollowsTarget ==
  \A w \in translated :
    LET n == NativeOf(w)
    IN  /\ Len(w.data.paragraphs) = Len(n.data.paragraphs)
        /\ \A p \in 1..Len(w.data.paragraphs) :
             LET wp == w.data.paragraphs[p]
                 np == n.data.paragraphs[p]
             IN  /\ Len(wp.sentences) = Len(np.sentences)
                 /\ \A k \in 1..Len(wp.sentences) :
                      /\ wp.sentences[k].audioFile
                           = ReplaceCode(np.sentences[k].audioFile,
                                         native_language_code, w.language,
                                         ".aac")
                      /\ wp.sentences[k].audioFile
                           # np.sentences[k].audioFile
                      /\ wp.sentences[k].audioFile
                           = create_audio_filename(
                               np.sentences[k].globalSentenceIndex,
                               book_code, SubbookNumOf(n),
                               n.data.chapterNumber,
                               np.paragraphIndex,
                               np.sentences[k].sentenceIndex, w.language)

\* A translated file for a target that language_map does not have, its
\* sentences still carrying the native text, and a translated file with a
\* sentence whose translation failed.
C11_Witness ==
  /\ \E w \in translated :
       /\ w.language \notin DOMAIN language_map
       /\ \E p \in 1..Len(w.data.paragraphs) :
            w.data.paragraphs[p].sentences[1].text
              = NativeOf(w).data.paragraphs[p].sentences[1].text
  /\ \E w \in translated :
       /\ w.language \in DOMAIN language_map
       /\ \E p \in 1..Len(w.data.paragraphs) :
            w.data.paragraphs[p].sentences[1].text = ""

\* C12: in every translated file, no sentence carries the native text, and
\* the text of a sentence is the translation of the native text of the
\* sentence at the same place of the native record into the file's
\* language (or nothing, when the service failed for it).
C12_TextIsTranslationOfNative ==
  \A w \in translated :
    LET n == NativeOf(w)
    IN  \A p \in 1..Len(w.data.paragraphs) :
          \A k \in 1..Len(w.data.paragraphs[p].sentences) :
            LET text_ == w.data.paragraphs[p].sentences[k].text
                native_text == n.data.paragraphs[p].sentences[k].text
            IN  /\ text_ # native_text
                /\ w.language \in DOMAIN language_map =>
                     text_ \in {translate_text(Strip(native_text),
                                               language_map[w.language],
                                               "ok"), ""}

\* The sentences of a translation step: the one the loop is at, before and
\* after the step.
StepsSentence ==
  /\ pc = "sentences"
  /\ cursor <= Len(SentenceAddrs(heap, translated_content))
  /\ target_language_codes[target_idx] \in DOMAIN language_map

\* C13: a sentence of a copy in a supported language gets the translation
\* of its native text or, when the service failed, the empty text; in
\* both cases the loop goes on with the next sentence of the same copy and
\* no other object changes.  The file of a copy is written once the loop
\* has visited every sentence, and when the file's loop over the targets is
\* over there is a translated file for every target.
C13_FailureDoesNotAbort ==
  /\ [][ StepsSentence =>
           LET a == SentenceAddrs(heap, translated_content)[cursor]
               ok == translate_text(
                       Strip(heap[a].text),
                       language_map[target_language_codes[target_idx]],
                       "ok")
           IN  /\ heap'[a].text \in {ok, ""}
               /\ heap'[a].text = "" \/ heap'[a].text # heap[a].text
               /\ \A b \in DOMAIN heap : b # a => heap'[b] = heap[b]
               /\ cursor' = cursor + 1
               /\ pc' = "sentences"
               /\ UNCHANGED <<translated_content, target_idx, translated>>
       ]_vars
  /\ [][ translated' # translated =>
           cursor > Len(SentenceAddrs(heap, translated_content)) ]_vars
  /\ [](pc \in {"targets", "translate", "translated"} /\ json_file # <<>> =>
          \A i \in 1..(target_idx - 1) :
            \E w \in translated :
              /\ w.language = target_language_codes[i]
              /\ w.folder = json_file[1].folder
              /\ w.chapter = json_file[1].chapter)

\* A finished run: the first target's file has a sentence left empty by a
\* failure, before and after sentences that were translated, and the second
\* target's file was written after it with a translated sentence.
C13_Witness ==
  /\ pc = "translated"
  /\ Len(target_language_codes) = 2
  /\ \E w, v \in translated :
       /\ w.language = target_language_codes[1]
       /\ v.language = target_language_codes[2]
       /\ w.language \in DOMAIN language_map
       /\ v.language \in DOMAIN language_map
       /\ LET ws == ConcatSentences(w.data.paragraphs)
              vs == ConcatSentences(v.data.paragraphs)
          IN  /\ \E i, j, k \in 1..Len(ws) :
                   /\ i < j /\ j < k
                   /\ ws[i].text # "" /\ ws[j].text = "" /\ ws[k].text # ""
              /\ \E i \in 1..Len(vs) : vs[i].text # ""

(***************************************************************************)
(* Properties of stage 4.                                                  *)
(***************************************************************************)
IsMarker(i) == lines[i].kind \in {"SUBBOOK", "CHAPTER"}

\* The number of SUBBOOK markers among the first i lines of the book.
SubbooksUpTo(i) == Cardinality({j \in 1..i : lines[j].kind = "SUBBOOK"})

\* The directory of the subbook context opened by the k-th SUBBOOK marker,
\* the output root for k = 0.
ContextDir(k) ==
  IF k = 0 THEN ""
  ELSE LET j == CHOOSE m \in 1..Len(lines) :
                  lines[m].kind = "SUBBOOK" /\ SubbooksUpTo(m) = k
       IN  ToString(k) \o "-" \o sanitize_filename(lines[j].val)

\* The position of the first marker after line i, one past the end of the
\* book when there is none.
NextMarker(i) ==
  LET ms == {j \in (i + 1)..Len(lines) : IsMarker(j)}
  IN  IF ms = {} THEN Len(lines) + 1
      ELSE CHOOSE j \in ms : \A m \in ms : j <= m

\* The lines between line i and the next marker.
BodyAfter(i) == SubSeq(lines, i + 1, NextMarker(i) - 1)

\* The CHAPTER markers read in the context of directory d that are followed
\* by a body line.
UnitMarkers(d) ==
  {i \in 1..Len(lines) :
     /\ lines[i].kind = "CHAPTER"
     /\ ContextDir(SubbooksUpTo(i)) = d
     /\ Len(BodyAfter(i)) > 0}

\* The chapter unit of the marker at line i, the n-th of its directory.
UnitOf(i, d, n) ==
  [dir |-> d,
   name |-> "chapter" \o ToString(n) \o ".txt",
   lines |-> <<Line("TEXT", title_case(lines[i].val), <<>>), BlankLine>>
               \o StripBlankLines(BodyAfter(i))]

\* C14: when extract_chapters has returned, the files of each directory
\* are the units of the CHAPTER markers read in its context that are
\* followed by at least one body line, named chapter1.txt, chapter2.txt,
\* ... in the order of the markers; a marker with no body line before the
\* next marker or the end of the book has no unit and takes no number.
C14_OneUnitPerChapterWithBody ==
  pc # "extract" =>
    files = UNION { {UnitOf(i, d, Cardinality({j \in UnitMarkers(d) : j <= i}))
                       : i \in UnitMarkers(d)}
                    : d \in {""} \cup dirs }

\* Line i is a body line that comes after a SUBBOOK marker with no CHAPTER
\* marker between the two.
AfterSubbook(i) ==
  /\ i \in 1..Len(lines) /\ ~IsMarker(i)
  /\ \E s \in 1..(i - 1) :
       /\ lines[s].kind = "SUBBOOK"
       /\ \A m \in (s + 1)..(i - 1) : lines[m].kind # "CHAPTER"

\* C15: right after a SUBBOOK marker was processed no chapter is in
\* progress, and no line that comes between a SUBBOOK marker and the next
\* CHAPTER marker is among the lines being accumulated or in a chapter unit.
C15_SubbookEndsChapter ==
  /\ (pc = "extract" /\ pos > 1 /\ lines[pos - 1].kind = "SUBBOOK")
       => current_chapter = <<>>
  /\ \A i \in 1..Len(chapter_lines) : ~AfterSubbook(chapter_lines[i].at)
  /\ \A f \in files :
       \A i \in 1..Len(f.lines) : ~AfterSubbook(f.lines[i].at)

\* The position of the last CHAPTER marker among the first i lines.
LastChapterUpTo(i) ==
  CHOOSE j \in 1..i :
    /\ lines[j].kind = "CHAPTER"
    /\ \A m \in (j + 1)..i : lines[m].kind # "CHAPTER"

\* C20: a chapter unit is written into the directory of the subbook context
\* that was current when the CHAPTER marker it belongs to (the last one read
\* before the unit is written) was read: the output root when no SUBBOOK
\* marker came before that CHAPTER marker.
C20_UnitInContextOfItsMarker ==
  [][ \A f \in files' \ files :
        f.dir = ContextDir(SubbooksUpTo(LastChapterUpTo(pos - 1))) ]_vars

\* C16: the SUBBOOK markers read so far are counted by
\* current_subbook_index, and the directories made are one per marker, the
\* k-th marker's being named k-<title>; downstream a chapter file of the
\* k-th marker's directory is given subbook number k and that folder, and
\* when the book has no SUBBOOK marker every chapter is given the subbook
\* number 1 and the folder 1-Default.
C16_SubbooksNumberedInOrder ==
  LET read == IF pc = "extract" THEN pos - 1 ELSE Len(lines)
  IN  /\ current_subbook_index = SubbooksUpTo(read)
      /\ dirs = {ContextDir(k) : k \in 1..SubbooksUpTo(read)}
      /\ Cardinality(dirs) = SubbooksUpTo(read)
      /\ \A k \in 1..SubbooksUpTo(read) :
           StartsWith(ContextDir(k), ToString(k) \o "-")
      /\ \A e \in 1..Len(produced) :
           /\ SubbooksUpTo(Len(lines)) = 0 =>
                /\ produced[e].subbook_num = 1
                /\ produced[e].out.folder = "1-Default"
           /\ \A k \in 1..SubbooksUpTo(Len(lines)) :
                produced[e].file.dir = ContextDir(k) =>
                  /\ produced[e].subbook_num = k
                  /\ produced[e].out.folder = ContextDir(k)

\* A finished run on a book with two SUBBOOK markers, a chapter of the
\* second subbook segmented.
C16_Witness ==
  /\ pc = "segmented"
  /\ SubbooksUpTo(Len(lines)) = 2
  /\ \E e \in Recorded :
       /\ produced[e].file.dir = ContextDir(2)
       /\ produced[e].subbook_num = 2

\* The position of the first CHAPTER marker of the book, one past its end
\* when there is none.
FirstChapter ==
  LET cs == {j \in 1..Len(lines) : lines[j].kind = "CHAPTER"}
  IN  IF cs = {} THEN Len(lines) + 1
      ELSE CHOOSE j \in cs : \A m \in cs : j <= m

\* C17: no line of the book that comes before the first CHAPTER marker is
\* among the lines being accumulated or in a chapter unit, and no unit
\* exists as long as no CHAPTER marker was read.
C17_LinesBeforeFirstChapterDiscarded ==
  /\ \A i \in 1..Len(chapter_lines) : chapter_lines[i].at > FirstChapter
  /\ \A f \in files :
       \A i \in 1..Len(f.lines) :
         f.lines[i].at = 0 \/ f.lines[i].at > FirstChapter
  /\ (pc = "extract" /\ pos <= FirstChapter) =>
       files = {} /\ chapter_lines = <<>> /\ current_chapter = <<>>

\* A finished run on a book with a text line before a SUBBOOK marker that
\* comes before the first CHAPTER marker, whose chapter was emitted.
C17_Witness ==
  /\ pc = "extracted"
  /\ files # {}
  /\ \E i, s \in 1..Len(lines) :
       /\ i < s /\ s < FirstChapter
       /\ lines[i].kind = "TEXT"
       /\ lines[s].kind = "SUBBOOK"

(***************************************************************************)
(* Stage 6: the structure record.                                          *)
(*                                                                         *)
(* The stage reads the native content files below {language}/Content, the  *)
(* directory stage 5 wrote them to.  The fields of the structure record    *)
(* that are copies of command-line arguments other than the languages and  *)
(* the book code are left out.                                             *)
(***************************************************************************)
\* --languages
languages == <<"en-US", "es-ES", "fr-FR">>

IsCased(c) == c \in DOMAIN ToLower \/ c \in DOMAIN ToUpper

\* str.title(): a letter that follows a letter is lowercased, any other
\* letter is uppercased.  prev tells whether the character before s is a
\* letter.
RECURSIVE TitleFrom(_, _)
TitleFrom(s, prev) ==
  IF Len(s) = 0 THEN ""
  ELSE LET c == SubSeq(s, 1, 1)
       IN  (IF prev THEN LowerChar(c) ELSE UpperChar(c))
             \o TitleFrom(Tail(s), IsCased(c))

Title(s) == TitleFrom(s, FALSE)

\* The part _C(\d+)_.*\.json$ of the pattern below, on the lower-cased
\* name low from position c, where the digits are to begin.
MatchChapterPart(low, c) ==
  LET d == DigitRun(SubSeq(low, c, Len(low)))
  IN  IF /\ d > 0
         /\ StartsWith(SubSeq(low, c + d, Len(low)), "_")
         /\ EndsWith(SubSeq(low, c + d + 1, Len(low)), ".json")
      THEN <<ParseInt(SubSeq(low, c, c + d - 1))>>
      ELSE <<>>

\* The part \d+_C(\d+)_.*\.json$ of the pattern, from position a.
MatchSubbookPart(low, a) ==
  LET d == DigitRun(SubSeq(low, a, Len(low)))
  IN  IF d > 0 /\ StartsWith(SubSeq(low, a + d, Len(low)), "_c")
      THEN MatchChapterPart(low, a + d + 2)
      ELSE <<>>

\* The pattern ^{book_code}_S\d+_C(\d+)_.*\.json$, case ignored, on a
\* file name: <<>> when the name does not match, << the number in the
\* group >> when it does.
ContentNameMatch(name) ==
  IF StartsWith(Lower(name), Lower(book_code) \o "_s")
  THEN MatchSubbookPart(Lower(name), Len(book_code) + 3)
  ELSE <<>>

\* The number of sentences of the first paragraph.
TotalSentences_first(paragraphs) ==
  IF Len(paragraphs) = 0 THEN 0 ELSE Len(paragraphs[1].sentences)

\* sum(len(para.get("sentences", [])) for para in paragraphs) (line 101)
RECURSIVE TotalSentences(_)
TotalSentences(paragraphs) ==
  IF Len(paragraphs) = 0 THEN 0
  ELSE Len(paragraphs[1].sentences) + TotalSentences(Tail(paragraphs))

\* extract_chapter_metadata on a content file that could be read: the
\* chapter entry, its identifier the next one drawn after uuid_.  source
\* is not a field of the entry: it names the content file the entry was
\* computed from.
extract_chapter_metadata(chapter_file, uuid_) ==
  LET data == chapter_file.data
      m == ContentNameMatch(chapter_file.name)
  IN  [chapterID |-> uuid_ + 1,
       chapterNumber |-> IF Len(m) = 0 THEN 0 ELSE m[1],
       chapterTitle |-> Title(Strip(data.chapterTitle)),
       totalParagraphs |-> Len(data.paragraphs),
       totalSentences |-> TotalSentences(data.paragraphs),
       contentReferences |-> <<>>,
       source |-> [folder |-> chapter_file.folder,
                   chapter |-> chapter_file.chapter,
                   name |-> chapter_file.name]]

\* sorted(...) of a set of content files of one subbook folder: by path.
RECURSIVE SortedContent(_)
SortedContent(fs) ==
  IF fs = {} THEN <<>>
  ELSE LET m == CHOOSE f \in fs :
                  \A g \in fs \ {f} :
                    PartsLess(<<f.chapter, f.name>>, <<g.chapter, g.name>>)
       IN  <<m>> \o SortedContent(fs \ {m})

\* list.sort(key=chapterNumber): entry c put into the sorted list cs, after
\* the entries whose number is not larger.
RECURSIVE InsertChapter(_, _)
InsertChapter(cs, c) ==
  IF Len(cs) = 0 THEN <<c>>
  ELSE IF cs[1].chapterNumber <= c.chapterNumber
       THEN <<cs[1]>> \o InsertChapter(Tail(cs), c)
       ELSE <<c>> \o cs

RECURSIVE SortChapters(_)
SortChapters(cs) ==
  IF Len(cs) = 0 THEN <<>>
  ELSE InsertChapter(SortChapters(SubSeq(cs, 1, Len(cs) - 1)), cs[Len(cs)])

\* The names without the subbook number.
ContentReferences_flat(subbook_number, chapter_number) ==
  [i \in 1..Len(languages) |->
     [lang |-> languages[i],
      file |-> book_code \o "_C" \o ToString(chapter_number) \o "_"
                 \o languages[i] \o ".json"]]

\* The contentReferences of a chapter entry (lines 158-159): for each
\* language the name {book_code}_S{subbook_number}_C{chapterNumber}_{lang}.json.
ContentReferences(subbook_number, chapter_number) ==
  [i \in 1..Len(languages) |->
     [lang |-> languages[i],
      file |-> book_code \o "_S" \o ToString(subbook_number) \o "_C"
                 \o ToString(chapter_number) \o "_" \o languages[i]
                 \o ".json"]]

\* The loop of assemble_subbook over the chapter files (lines 155-160).  st
\* holds the chapter entries so far and the number of identifiers drawn; a
\* file in unreadable gives no entry.
RECURSIVE AssembleChapters(_, _, _, _)
AssembleChapters(st, chapter_files_, unreadable, subbook_number) ==
  IF Len(chapter_files_) = 0 THEN st
  ELSE LET chapter_file == chapter_files_[1]
           chapter_meta == extract_chapter_metadata(chapter_file, st.uuid)
       IN  AssembleChapters(
             IF chapter_file \in unreadable THEN st
             ELSE [chapters |->
                     Append(st.chapters,
                            [chapter_meta EXCEPT !.contentReferences =
                               ContentReferences(subbook_number,
                                                 chapter_meta.chapterNumber)]),
                   uuid |-> chapter_meta.chapterID],
             Tail(chapter_files_), unreadable, subbook_number)

\* assemble_subbook on the folder subbook_name of the content files fs:
\* the subbook entry and the number of identifiers drawn after the call.
assemble_subbook(subbook_name, fs, unreadable, uuid_) ==
  LET n == DigitRun(subbook_name)
      matches == n > 0 /\ Len(subbook_name) > n + 1
                   /\ SubSeq(subbook_name, n + 1, n + 1) = "-"
      subbook_number == IF matches THEN ParseInt(SubSeq(subbook_name, 1, n))
                        ELSE 1
      subbook_title ==
        IF matches THEN Strip(SubSeq(subbook_name, n + 2, Len(subbook_name)))
        ELSE "Default"
      chapter_files_ ==
        SortedContent({f \in fs : /\ f.folder = subbook_name
                                  /\ Len(ContentNameMatch(f.name)) > 0})
      st == AssembleChapters([chapters |-> <<>>, uuid |-> uuid_ + 1],
                             chapter_files_, unreadable, subbook_number)
  IN  [subbook |-> [subBookID |-> uuid_ + 1,
                    subBookNumber |-> subbook_number,
                    subBookTitle |-> subbook_title,
                    chapters |-> SortChapters(st.chapters)],
       uuid |-> st.uuid]

\* The loop of assemble_structure_json over the subbook folders (lines
\* 213-215).
RECURSIVE AssembleSubbooks(_, _, _, _)
AssembleSubbooks(st, subbook_dirs, fs, unreadable) ==
  IF Len(subbook_dirs) = 0 THEN st
  ELSE LET r == assemble_subbook(subbook_dirs[1], fs, unreadable, st.uuid)
       IN  AssembleSubbooks([subbooks |-> Append(st.subbooks, r.subbook),
                             uuid |-> r.uuid],
                            Tail(subbook_dirs), fs, unreadable)

\* assemble_structure_json.  subbook_dirs is the sorted list of the folders
\* named <digits>-...; with none, the record has the subbook Default and
\* the chapters of the content files that lie in the input directory
\* itself, of which stage 5 writes none.
assemble_structure_json(subbook_dirs, fs, unreadable, uuid_) ==
  IF Len(subbook_dirs) > 0
  THEN LET st == AssembleSubbooks([subbooks |-> <<>>, uuid |-> uuid_ + 1],
                                  subbook_dirs, fs, unreadable)
       IN  [structure |-> [bookID |-> uuid_ + 1,
                           languages |-> languages,
                           bookCode |-> book_code,
                           subBooks |-> st.subbooks],
            uuid |-> st.uuid]
  ELSE [structure |-> [bookID |-> uuid_ + 1,
                       languages |-> languages,
                       bookCode |-> book_code,
                       subBooks |-> << [subBookID |-> uuid_ + 2,
                                        subBookNumber |-> 1,
                                        subBookTitle |-> "Default",
                                        chapters |-> <<>>] >>],
        uuid |-> uuid_ + 2]

\* The folders below {language}/Content: stage 5 makes the folder of a
\* chapter file before it reads the file (lines 261-262).
ContentDirs == {produced[e].out.folder : e \in 1..Len(produced)}

\* int(re.match(r'^(\d+)-', name).group(1))
DirNumber(name) == ParseInt(SubSeq(name, 1, DigitRun(name)))

\* The lists that sorted(subbook_dirs, key=...) (line 212) can give: the
\* folders in the order of their numbers, those of equal number in the
\* order iterdir happened to give them.
RECURSIVE SortedDirs(_)
SortedDirs(ds) ==
  IF ds = {} THEN {<<>>}
  ELSE UNION { {<<x>> \o rest : rest \in SortedDirs(ds \ {x})}
               : x \in {y \in ds : \A z \in ds : DirNumber(y) <= DirNumber(z)} }

\* Stage 6: main of 6-assemble_structure_json.py, once stage 5 is over.
\* Nothing is written when the input directory does not exist, which is
\* so when stage 5 found no chapter file.
AssembleStructure ==
  /\ pc = "segmented"
  /\ \E unreadable \in SUBSET content :
       \E subbook_dirs \in SortedDirs({d \in ContentDirs :
                                         IsSubbookFolder(d)}) :
         IF ContentDirs = {}
         THEN UNCHANGED <<structure, uuid>>
         ELSE LET r == assemble_structure_json(subbook_dirs, content,
                                               unreadable, uuid)
              IN  /\ structure' = <<r.structure>>
                  /\ uuid' = r.uuid
  /\ pc' = "assembled"
  /\ UNCHANGED <<extractVars, translateVars, audioVars, callVars,
                 chapter_files, file_idx, use_default_subbook,
                 global_counter, produced, content>>

\* Stages 4, 5 and 6 in a row.
NextAssemble ==
  \/ ExtractSubbook
  \/ ExtractChapter
  \/ ExtractBody
  \/ ExtractFinish
  \/ SegmentStart
  \/ \E read \in ReadOutcomes : SegmentChapter(read)
  \/ SegmentFinish
  \/ AssembleStructure

SpecAssemble == Init /\ [][NextAssemble]_vars

(***************************************************************************)
(* Properties of stage 6.                                                  *)
(***************************************************************************)
\* The chapter entries of the structure record.
ChapterEntries ==
  IF structure = <<>> THEN {}
  ELSE UNION { {structure[1].subBooks[s].chapters[c]
                  : c \in 1..Len(structure[1].subBooks[s].chapters)}
               : s \in 1..Len(structure[1].subBooks) }

\* The content file a chapter entry was computed from.
SourceOf(entry) ==
  CHOOSE n \in content :
    /\ n.folder = entry.source.folder
    /\ n.chapter = entry.source.chapter
    /\ n.name = entry.source.name

\* C18: every chapter entry of the structure record has as totalParagraphs
\* the number of paragraphs of the native record it was computed from, and
\* as totalSentences the number of sentences of those paragraphs together.
C18_TotalsMatchRecord ==
  \A entry \in ChapterEntries :
    LET data == SourceOf(entry).data
    IN  /\ entry.totalParagraphs = Len(data.paragraphs)
        /\ entry.totalSentences = Len(ConcatSentences(data.paragraphs))

\* A structure record with a chapter entry of two paragraphs and more
\* sentences than paragraphs, the first paragraph not holding them all.
C18_Witness ==
  \E entry \in ChapterEntries :
    /\ entry.totalParagraphs = 2
    /\ entry.totalSentences = 3
    /\ Len(SourceOf(entry).data.paragraphs[1].sentences) < 3

(***************************************************************************)
(* Properties of title_case.                                               *)
(***************************************************************************)
MinorWords ==
  {"of", "and", "the", "in", "on", "at", "to", "for", "with", "a", "an"}

\* out is the title whose words are those of title, each with its first
\* letter in upper case and the rest in lower case, except that a word
\* after the first that is a minor word is all in lower case.
IsTitleCased(out, title) ==
  LET ow == SplitWords(out, "")
      iw == SplitWords(title, "")
  IN  /\ Len(ow) = Len(iw)
      /\ \A i \in 1..Len(iw) :
           /\ Len(ow[i]) = Len(iw[i])
           /\ Tail(ow[i]) = Lower(Tail(iw[i]))
           /\ SubSeq(ow[i], 1, 1) =
                IF i = 1 \/ Lower(iw[i]) \notin MinorWords
                THEN UpperChar(SubSeq(iw[i], 1, 1))
                ELSE LowerChar(SubSeq(iw[i], 1, 1))

\* C19: the title line of an emitted chapter unit and the chapterTitle of
\* the record made from it are the title of the CHAPTER marker with its
\* first word capitalized, every later minor word (of, and, the, in, on,
\* at, to, for, with, a, an, in any case) in lower case and every other
\* word capitalized; "the golden bird" gives "The Golden Bird" and "song of
\* the sea" gives "Song of the Sea".
C19_TitleCase ==
  /\ title_case("the golden bird") = "The Golden Bird"
  /\ title_case("song of the sea") = "Song of the Sea"
  /\ \A f \in files : IsTitleCased(f.lines[1].val, lines[1].val)
  /\ \A e \in Recorded :
       IsTitleCased(produced[e].data[1].chapterTitle, lines[1].val)
  /\ lines[1].val = "song of the sea" =>
       /\ \A f \in files : f.lines[1].val = "Song of the Sea"
       /\ \A e \in Recorded :
            produced[e].data[1].chapterTitle = "Song of the Sea"

\* A record made from a title whose first word is a minor word and which
\* has a later minor word given in upper case.
C19_Witness ==
  /\ Recorded # {}
  /\ LET iw == SplitWords(lines[1].val, "")
     IN  /\ Lower(iw[1]) \in MinorWords
         /\ \E i \in 2..Len(iw) :
              Lower(iw[i]) \in MinorWords /\ iw[i] # Lower(iw[i])

(***************************************************************************)
(* Properties of the audio file names within one run.                      *)
(***************************************************************************)
\* The subbook number, chapter number, paragraph index and sentence index
\* of sentence i of the run, with the entry of produced it belongs to.
RECURSIVE EntryOfSentence(_, _)
EntryOfSentence(i, e) ==
  IF i <= Len(RunSentencesUpTo(e)) THEN e ELSE EntryOfSentence(i, e + 1)

ParagraphOf(e, sn) ==
  CHOOSE p \in 1..Len(produced[e].data[1].paragraphs) :
    \E k \in 1..Len(produced[e].data[1].paragraphs[p].sentences) :
      produced[e].data[1].paragraphs[p].sentences[k] = sn

Coordinates(i) ==
  LET e == EntryOfSentence(i, 1)
      sn == RunSentences[i]
  IN  <<produced[e].subbook_num, produced[e].data[1].chapterNumber,
        produced[e].data[1].paragraphs[ParagraphOf(e, sn)].paragraphIndex,
        sn.sentenceIndex>>

\* C24: within one run (one language), no two Sentence Records have the
\* same audioFile, whatever paragraphs, chapters and subbooks they are in.
C24_AudioFilesDistinct ==
  LET ss == RunSentences
  IN  \A i, j \in 1..Len(ss) : i # j => ss[i].audioFile # ss[j].audioFile

\* A finished run with two sentences of different chapter files that have
\* the same subbook number, chapter number, paragraph index and sentence
\* index: only the sequential index tells their audio files apart.
C24_Witness ==
  /\ pc = "segmented"
  /\ \E i, j \in 1..Len(RunSentences) :
       /\ i # j
       /\ EntryOfSentence(i, 1) # EntryOfSentence(j, 1)
       /\ Coordinates(i) = Coordinates(j)

(***************************************************************************)
(* Properties of the (subbook number, chapter number) pairs of stage 5.    *)
(***************************************************************************)
\* C25: within one run, no two distinct chapter units emitted by the
\* extractor are given the same (subbook number, chapter number) pair by
\* the segmentation stage, so no two of them get the same content file
\* name; this holds also when some chapters precede the first SUBBOOK marker
\* and others follow it.
C25_UnitsHaveDistinctPairs ==
  \A i, j \in 1..Len(produced) :
    produced[i].file # produced[j].file =>
      /\ <<produced[i].subbook_num, ChapterNumberOf(produced[i].file.name)>>
           # <<produced[j].subbook_num, ChapterNumberOf(produced[j].file.name)>>
      /\ produced[i].out.name # produced[j].out.name

(***************************************************************************)
(* Stage 5 on lines for which the sentence-boundary detector returns       *)
(* empty segments or nothing.                                              *)
(***************************************************************************)
MaxDetectLines == 3

\* Text lines with what the detector returns for them: nothing, only empty
\* or blank segments, empty segments among others, and the usual case.
DetectLines ==
  { Line("TEXT", "Hello world.", <<>>),
    Line("TEXT", " Hi there. ", <<>>),
    Line("TEXT", "Hello world.", <<"", " ">>),
    Line("TEXT", "Hello world.", <<" ", "Hello ", "", "world.">>),
    Line("TEXT", "Hello world.", <<"Hello world.">>) }

DetectAlphabet == {RefLine, BlankLine} \cup DetectLines

\* Stages 4 and 5 on a book of one chapter whose body is any list of at
\* most MaxDetectLines lines of DetectAlphabet.
InitDetect ==
  /\ pc = "extract"
  /\ \E n \in 0..MaxDetectLines :
       \E b \in [1..n -> DetectAlphabet] :
         lines = Numbered(<<ChapterLine>> \o b)
  /\ pos = 1
  /\ current_subbook_index = 0
  /\ current_chapter = <<>>
  /\ chapter_lines = <<>>
  /\ subbook_detected = FALSE
  /\ current_output_dir = ""
  /\ dirs = {}
  /\ files = {}
  /\ chapter_files = <<>>
  /\ file_idx = 0
  /\ use_default_subbook = FALSE
  /\ global_counter = 0
  /\ uuid = 0
  /\ produced = <<>>
  /\ content = {}
  /\ target_language_codes = <<>>
  /\ TranslateIdle
  /\ structure = <<>>
  /\ AudioIdle /\ CallsIdle

NextDetect ==
  \/ ExtractChapter
  \/ ExtractBody
  \/ ExtractFinish
  \/ SegmentStart
  \/ \E read \in ReadOutcomes : SegmentChapter(read)
  \/ SegmentFinish

SpecDetect == InitDetect /\ [][NextDetect]_vars

\* The non-empty segments the detector returned for a line, trimmed.
RECURSIVE NonEmptySegments(_)
NonEmptySegments(segs) ==
  IF Len(segs) = 0 THEN <<>>
  ELSE (IF Strip(segs[1]) = "" THEN <<>> ELSE <<Strip(segs[1])>>)
         \o NonEmptySegments(Tail(segs))

\* The texts of the sentences of a record that came from book line at, in
\* list order.
TextsFrom(ss, at) ==
  LET from == SelectSeq(ss, LAMBDA sn : sn.origin[1] = at)
  IN  [k \in 1..Len(from) |-> from[k].text]

\* C26: every Sentence Record created by process_chapter_file has non-empty
\* text: a blank line or a REF marker line creates no sentence, the empty
\* segments of the detector are dropped, and a non-blank line for which the
\* detector returns nothing gives exactly one sentence, the trimmed line.
C26_SentenceTextNonEmpty ==
  \A e \in Recorded :
    LET ss == SentencesOf(produced[e])
        f == FileOf(produced[e])
    IN  /\ \A k \in 1..Len(ss) : ss[k].text # "" /\ Strip(ss[k].text) = ss[k].text
        /\ \A l \in 2..Len(f.lines) :
             LET line == f.lines[l]
                 texts == TextsFrom(ss, line.at)
             IN  IF line.kind \in {"BLANK", "REF"}
                 THEN texts = <<>>
                 ELSE IF NonEmptySegments(line.segs) # <<>>
                 THEN texts = NonEmptySegments(line.segs)
                 ELSE texts = <<Strip(line.val)>>
        /\ \A k \in 1..Len(ss) :
             \E l \in 3..Len(f.lines) : f.lines[l].at = ss[k].origin[1]

\* A record made from a line for which the detector returned nothing, a
\* line for which it returned empty segments among others, and a REF
\* marker line.
C26_Witness ==
  \E e \in Recorded :
    LET f == FileOf(produced[e])
    IN  /\ \E l \in 3..Len(f.lines) :
             f.lines[l].kind = "TEXT" /\ NonEmptySegments(f.lines[l].segs) = <<>>
        /\ \E l \in 3..Len(f.lines) :
             /\ f.lines[l].kind = "TEXT"
             /\ Len(NonEmptySegments(f.lines[l].segs)) \in 1..(Len(f.lines[l].segs) - 1)
        /\ \E l \in 3..Len(f.lines) : f.lines[l].kind = "REF"
        /\ Len(SentencesOf(produced[e])) >= 3

(***************************************************************************)
(* Properties of the identifiers and the frame of a translation.           *)
(***************************************************************************)
\* C22: each chapter-language pair has its own chapterID: no two Chapter
\* Records written for different chapters, or for different languages of
\* one chapter, carry the same chapterID; a translated copy's chapterID
\* differs from that of the native record it was made from.
C22_ChapterIdPerLanguage ==
  /\ \A n, m \in content : n # m => n.data.chapterID # m.data.chapterID
  /\ \A w \in translated :
       \A n \in content : w.data.chapterID # n.data.chapterID
  /\ \A w, v \in translated :
       <<w.language, w.folder, w.chapter, w.name>>
         # <<v.language, v.folder, v.chapter, v.name>>
       => w.data.chapterID # v.data.chapterID

\* A record with what translation may change left out: the language and
\* each sentence's text and audioFile.
Frame(record) ==
  [record EXCEPT
     !.language = "",
     !.paragraphs =
       [p \in 1..Len(record.paragraphs) |->
          [record.paragraphs[p] EXCEPT
             !.sentences =
               [k \in 1..Len(record.paragraphs[p].sentences) |->
                  [record.paragraphs[p].sentences[k] EXCEPT
                     !.text = "", !.audioFile = ""]]]]]

\* C27: translation changes only the record's language and each sentence's
\* text and audioFile: a translated copy has the chapterNumber,
\* chapterTitle, number and order of paragraphs and sentences,
\* paragraphIndex, sentenceIndex, globalSentenceIndex, reference,
\* paragraphID and sentenceID of the native record, position by position.
C27_TranslationFrame ==
  \A w \in translated :
    LET n == NativeOf(w)
    IN  /\ w.data.chapterNumber = n.data.chapterNumber
        /\ w.data.chapterTitle = n.data.chapterTitle
        /\ Len(w.data.paragraphs) = Len(n.data.paragraphs)
        /\ \A p \in 1..Len(w.data.paragraphs) :
             LET wp == w.data.paragraphs[p]
                 np == n.data.paragraphs[p]
             IN  /\ wp.paragraphID = np.paragraphID
                 /\ wp.paragraphIndex = np.paragraphIndex
                 /\ Len(wp.sentences) = Len(np.sentences)
                 /\ \A k \in 1..Len(wp.sentences) :
                      /\ wp.sentences[k].sentenceID
                           = np.sentences[k].sentenceID
                      /\ wp.sentences[k].sentenceIndex
                           = np.sentences[k].sentenceIndex
                      /\ wp.sentences[k].globalSentenceIndex
                           = np.sentences[k].globalSentenceIndex
                      /\ wp.sentences[k].reference
                           = np.sentences[k].reference
        /\ Frame(w.data) = Frame(n.data)

\* A translated file with a sentence that has a reference and whose text
\* and audioFile differ from the native sentence's.
C27_Witness ==
  \E w \in translated :
    /\ w.data.language # NativeOf(w).data.language
    /\ \E p \in 1..Len(w.data.paragraphs) :
         \E k \in 1..Len(w.data.paragraphs[p].sentences) :
           LET ws == w.data.paragraphs[p].sentences[k]
               ns == NativeOf(w).data.paragraphs[p].sentences[k]
           IN  /\ ns.reference # ""
               /\ ws.text # ns.text /\ ws.text # ""
               /\ ws.audioFile # ns.audioFile

(***************************************************************************)
(* Properties of the structure record against the content files.          *)
(***************************************************************************)
\* C28: for every chapter entry of the structure record, the
\* contentReferences name for the native language is the name of the
\* content file stage 5 wrote for the chapter, the file the entry's totals
\* were read from, and for every other language it is the name the
\* translator gives the chapter's translated file.
C28_ContentReferencesNameFiles ==
  \A entry \in ChapterEntries :
    LET src == SourceOf(entry)
    IN  /\ \E e \in Recorded :
             /\ produced[e].out = [folder |-> src.folder,
                                   chapter |-> src.chapter,
                                   name |-> src.name]
             /\ produced[e].data[1] = src.data
        /\ {entry.contentReferences[i].lang
              : i \in 1..Len(entry.contentReferences)}
             = {languages[i] : i \in 1..Len(languages)}
        /\ \A i \in 1..Len(entry.contentReferences) :
             LET r == entry.contentReferences[i]
             IN  IF r.lang = language
                 THEN r.file = src.name
                 ELSE r.file = NewFilename(src.name, r.lang)

\* A structure record with a chapter entry in the second subbook.
C28_Witness ==
  /\ pc = "assembled"
  /\ structure # <<>>
  /\ \E s \in 1..Len(structure[1].subBooks) :
       /\ structure[1].subBooks[s].subBookNumber = 2
       /\ Len(structure[1].subBooks[s].chapters) > 0

\* C29: for every chapter, the chapterTitle of the structure record's
\* chapter entry equals the chapterTitle of the native Chapter Record it was
\* read from, also for titles with minor words (of, and, the, ...) after
\* the first word.
C29_StructureTitleIsRecordTitle ==
  \A entry \in ChapterEntries :
    entry.chapterTitle = SourceOf(entry).data.chapterTitle

(***************************************************************************)
(* The sentence loop of process_chapter_file, statement by statement, for  *)
(* two calls that share one counter.  Each call makes the sentences of one *)
(* one-paragraph chapter.  When serialized holds the calls run as the loop *)
(* of process_all_chapter_files runs them, the second after the first has  *)
(* returned; otherwise their statements interleave in any way.             *)
(***************************************************************************)
MaxCallSentences == 2

\* Both calls may run at any time.
Runnable_any(c) == calls[c].pc # "done"

\* Call c may take its next step: it has not returned and, when the calls
\* are made by the loop over the chapter files (lines 248-263), every call
\* before it has returned.
Runnable(c) ==
  /\ calls[c].pc # "done"
  /\ serialized => \A b \in 1..(c - 1) : calls[b].pc = "done"

\* Lines 177-185: the counter is read for the audio file name.
CallAudioName(c) ==
  /\ pc = "calls" /\ Runnable(c) /\ calls[c].pc = "name"
  /\ calls' = [calls EXCEPT
       ![c].audio_filename =
          create_audio_filename(global_counter, book_code, 1,
                                calls[c].chapter_number, 1,
                                calls[c].local_idx, language),
       ![c].pc = "dict"]
  /\ UNCHANGED <<pc, extractVars, segmentVars, translateVars, assembleVars,
                 audioVars, serialized>>

\* Lines 187-195: the counter is read again for globalSentenceIndex and
\* the sentence is appended.
CallSentenceDict(c) ==
  /\ pc = "calls" /\ Runnable(c) /\ calls[c].pc = "dict"
  /\ calls' = [calls EXCEPT
       ![c].sentences =
          Append(@, [sentenceIndex |-> calls[c].local_idx,
                     globalSentenceIndex |-> global_counter,
                     audioFile |-> calls[c].audio_filename]),
       ![c].pc = "load"]
  /\ UNCHANGED <<pc, extractVars, segmentVars, translateVars, assembleVars,
                 audioVars, serialized>>

\* Line 197, global_counter["value"] += 1: the value is read,
CallLoadCounter(c) ==
  /\ pc = "calls" /\ Runnable(c) /\ calls[c].pc = "load"
  /\ calls' = [calls EXCEPT ![c].loaded = global_counter, ![c].pc = "store"]
  /\ UNCHANGED <<pc, extractVars, segmentVars, translateVars, assembleVars,
                 audioVars, serialized>>

\* and one more than the value read is stored; the loop goes to the next
\* sentence or the call returns.
CallStoreCounter(c) ==
  /\ pc = "calls" /\ Runnable(c) /\ calls[c].pc = "store"
  /\ global_counter' = IncrementCounter(calls[c].loaded)
  /\ calls' = [calls EXCEPT
       ![c].local_idx = @ + 1,
       ![c].pc = IF calls[c].local_idx = calls[c].total
                 THEN "done" ELSE "name"]
  /\ UNCHANGED <<pc, extractVars, translateVars, assembleVars, audioVars,
                 serialized, chapter_files, file_idx, use_default_subbook,
                 uuid, produced, content>>

\* Two calls on a counter that starts at 1, each with at most
\* MaxCallSentences sentences to make, serialized or not.
InitCalls ==
  /\ pc = "calls"
  /\ lines = <<>>
  /\ pos = 1
  /\ current_subbook_index = 0
  /\ current_chapter = <<>>
  /\ chapter_lines = <<>>
  /\ subbook_detected = FALSE
  /\ current_output_dir = ""
  /\ dirs = {}
  /\ files = {}
  /\ chapter_files = <<>>
  /\ file_idx = 0
  /\ use_default_subbook = TRUE
  /\ global_counter = InitialCounter
  /\ uuid = 0
  /\ produced = <<>>
  /\ content = {}
  /\ target_language_codes = <<>>
  /\ TranslateIdle
  /\ structure = <<>>
  /\ AudioIdle
  /\ serialized \in BOOLEAN
  /\ \E totals \in [1..2 -> 1..MaxCallSentences] :
       calls = [c \in 1..2 |->
                  [pc |-> "name", chapter_number |-> c,
                   total |-> totals[c], local_idx |-> 1,
                   audio_filename |-> "", loaded |-> 0,
                   sentences |-> <<>>]]

NextCalls ==
  \/ \E c \in 1..2 : CallAudioName(c)
  \/ \E c \in 1..2 : CallSentenceDict(c)
  \/ \E c \in 1..2 : CallLoadCounter(c)
  \/ \E c \in 1..2 : CallStoreCounter(c)

SpecCalls == InitCalls /\ [][NextCalls]_vars

\* The sentences the calls have made so far.
CallSentences ==
  IF Len(calls) = 0 THEN <<>> ELSE calls[1].sentences \o calls[2].sentences

\* Two sentences carry the same globalSentenceIndex.
DuplicateIndex ==
  \E i, j \in 1..Len(CallSentences) :
    /\ i # j
    /\ CallSentences[i].globalSentenceIndex
         = CallSentences[j].globalSentenceIndex

\* The seven-digit prefix of a sentence's audioFile is not its
\* globalSentenceIndex.
PrefixMismatch ==
  \E i \in 1..Len(CallSentences) :
    ParseInt(SubSeq(CallSentences[i].audioFile, 1, 7))
      # CallSentences[i].globalSentenceIndex

\* C23: the shared counter is safe only under serialized use.  The counter
\* is read for the audio file name, read again for globalSentenceIndex and
\* incremented in separate steps; when the calls run one after the other,
\* as in the loop of process_all_chapter_files, no two sentences carry the
\* same globalSentenceIndex and every audioFile prefix is the sentence's
\* globalSentenceIndex, and the counter ends one past the number of
\* sentences.  The state the claim says interleaved calls can reach is
\* C23_Witness.
C23_CounterSafeWhenSerialized ==
  (pc = "calls" /\ serialized) =>
    /\ ~DuplicateIndex
    /\ ~PrefixMismatch
    /\ (\A c \in 1..2 : calls[c].pc = "done") =>
         /\ global_counter = Len(CallSentences) + 1
         /\ {CallSentences[i].globalSentenceIndex
               : i \in 1..Len(CallSentences)} = 1..Len(CallSentences)

\* Interleaved calls: two sentences carry the same globalSentenceIndex and
\* a sentence's audioFile prefix differs from its globalSentenceIndex.
C23_Witness ==
  /\ pc = "calls" /\ ~serialized
  /\ DuplicateIndex
  /\ PrefixMismatch

(***************************************************************************)
(* Stage 8: the audio generator, and stage 10: the verifier.               *)
(*                                                                         *)
(* A path is the list of its parts below the book folder.  The content     *)
(* files are those of stage 5 in the folder of the native language and     *)
(* those of the translator in the folders of the target languages.         *)
(***************************************************************************)
MaxAudioBody == 3

\* The content files below the book folder, each with its language folder.
AllContentFiles ==
  {[lang |-> language, folder |-> n.folder, chapter |-> n.chapter,
    name |-> n.name, data |-> n.data] : n \in content}
    \cup {[lang |-> w.language, folder |-> w.folder, chapter |-> w.chapter,
           name |-> w.name, data |-> w.data] : w \in translated}

\* The path of a content file: {lang}/Content/{subbook}/{chapter}/{name}.
PathOf(json) == <<json.lang, "Content", json.folder, json.chapter, json.name>>

\* Path.relative_to(base), for a base that is a prefix of the path.
RelativeTo(path, base) == SubSeq(path, Len(base) + 1, Len(path))

\* Path.parent
Parent(path) == SubSeq(path, 1, Len(path) - 1)

\* The audio file in the Audio folder itself.
OutputAudioPath_flat(json, audio_filename) ==
  <<json.lang, "Audio", audio_filename>>

\* process_json_file of stage 8, lines 94-100 and 113: the audio file of a
\* sentence lies in audio_base joined with the parent of the content
\* file's path relative to content_base.
OutputAudioPath(json, audio_filename) ==
  LET content_base == <<json.lang, "Content">>
      audio_base == <<json.lang, "Audio">>
      rel_path == RelativeTo(PathOf(json), content_base)
      output_audio_dir == audio_base \o Parent(rel_path)
  IN  Append(output_audio_dir, audio_filename)

\* The rest of the file given up after a failed call.
AfterAttempt_abort(cursor_, n, outcome) ==
  IF outcome = "ok" THEN cursor_ + 1 ELSE n + 1

\* generate_audio catches every exception and logs it (lines 69-70), so
\* the loops of process_json_file go on with the next sentence whatever
\* the outcome of the call.
AfterAttempt(cursor_, n, outcome) == cursor_ + 1

\* generate_audio: the audio files after the call.  The file is written
\* when the synthesis succeeds (line 67).
generate_audio(audio_, output_path, outcome) ==
  IF outcome = "ok" THEN audio_ \cup {output_path} ELSE audio_

\* process_all_json_files of stage 8 before its loops: the content files
\* of every language folder that has a Content folder (lines 127-139).
AudioStart ==
  /\ pc = "translated"
  /\ audio_queue' = AllContentFiles
  /\ pc' = "audio"
  /\ UNCHANGED <<extractVars, segmentVars, translateVars, assembleVars,
                 callVars, audio_json, audio_cursor, attempts, audio_dirs,
                 audio, audio_unread, missing_files>>

\* process_json_file of stage 8 up to its loops (lines 81-101), for any
\* file not yet processed.  A file that cannot be read or has no language
\* is left out; otherwise its audio directory is made.
AudioOpenFile(read) ==
  /\ pc = "audio"
  /\ \E f \in audio_queue :
       /\ audio_queue' = audio_queue \ {f}
       /\ IF read = "ok" /\ Strip(f.data.language) # ""
          THEN /\ audio_json' = <<f>>
               /\ audio_cursor' = 1
               /\ audio_dirs' = audio_dirs \cup {Parent(OutputAudioPath(f, ""))}
               /\ pc' = "synth"
               /\ UNCHANGED audio_unread
          ELSE /\ audio_unread' =
                    IF read = "ok" THEN audio_unread
                    ELSE audio_unread \cup {PathOf(f)}
               /\ UNCHANGED <<audio_json, audio_cursor, audio_dirs, pc>>
  /\ UNCHANGED <<extractVars, segmentVars, translateVars, assembleVars,
                 callVars, attempts, audio, missing_files>>

\* The sentences of the content file being processed, in the order of the
\* loops over its paragraphs and their sentences.
AudioSentences == ConcatSentences(audio_json[1].data.paragraphs)

\* A sentence stage 8 makes audio for: it has text and an audio file name
\* (lines 105-112).
HasTextAndName(sentence) ==
  Strip(sentence.text) # "" /\ sentence.audioFile # ""

\* process_json_file of stage 8, one sentence without text or without
\* audio file name: it is skipped (lines 105-112).
AudioSkipSentence ==
  /\ pc = "synth" /\ audio_cursor <= Len(AudioSentences)
  /\ ~HasTextAndName(AudioSentences[audio_cursor])
  /\ audio_cursor' = audio_cursor + 1
  /\ UNCHANGED <<pc, extractVars, segmentVars, translateVars, assembleVars,
                 callVars, audio_queue, audio_json, attempts, audio_dirs,
                 audio, audio_unread, missing_files>>

SynthesisOutcomes == {"ok", "error"}

\* process_json_file of stage 8, one sentence with text and audio file
\* name: generate_audio is called for it (lines 113-115).
AudioSentence(outcome) ==
  /\ pc = "synth" /\ audio_cursor <= Len(AudioSentences)
  /\ HasTextAndName(AudioSentences[audio_cursor])
  /\ LET sentence == AudioSentences[audio_cursor]
         output_audio_path == OutputAudioPath(audio_json[1],
                                              sentence.audioFile)
     IN  /\ audio' = generate_audio(audio, output_audio_path, outcome)
         /\ attempts' = Append(attempts,
                               [file |-> PathOf(audio_json[1]),
                                at |-> audio_cursor,
                                path |-> output_audio_path,
                                outcome |-> outcome])
  /\ audio_cursor' = AfterAttempt(audio_cursor, Len(AudioSentences), outcome)
  /\ UNCHANGED <<pc, extractVars, segmentVars, translateVars, assembleVars,
                 callVars, audio_queue, audio_json, audio_dirs,
                 audio_unread, missing_files>>

\* process_json_file of stage 8 returns when its loops are over.
AudioFileDone ==
  /\ pc = "synth" /\ audio_cursor > Len(AudioSentences)
  /\ audio_json' = <<>>
  /\ audio_cursor' = 0
  /\ pc' = "audio"
  /\ UNCHANGED <<extractVars, segmentVars, translateVars, assembleVars,
                 callVars, audio_queue, attempts, audio_dirs, audio,
                 audio_unread, missing_files>>

\* process_all_json_files of stage 8 returns when every file was processed.
AudioFinish ==
  /\ pc = "audio" /\ audio_queue = {}
  /\ pc' = "audio_done"
  /\ UNCHANGED <<extractVars, segmentVars, translateVars, assembleVars,
                 callVars, audioVars>>

\* re.match(r'^[a-z]{2}-[A-Z]{2}$', name)
IsLanguageFolder(name) ==
  /\ Len(name) = 5
  /\ SubSeq(name, 1, 1) \in DOMAIN ToUpper
  /\ SubSeq(name, 2, 2) \in DOMAIN ToUpper
  /\ SubSeq(name, 3, 3) = "-"
  /\ SubSeq(name, 4, 4) \in DOMAIN ToLower
  /\ SubSeq(name, 5, 5) \in DOMAIN ToLower

\* verify_files, lines 229-244: the audio file expected for a sentence of
\* a chapter file lies in audio_dir joined with the parent of the chapter
\* file's path relative to content_dir.
ExpectedAudioFile(chap_file, audio_filename) ==
  LET content_dir == <<chap_file.lang, "Content">>
      audio_dir == <<chap_file.lang, "Audio">>
      rel_path == RelativeTo(PathOf(chap_file), content_dir)
      expected_audio_dir == audio_dir \o Parent(rel_path)
  IN  Append(expected_audio_dir, audio_filename)

\* What verify_files reports for one chapter file that could be read
\* (lines 238-246).
MissingOfChapter(chap_file, audio_) ==
  LET ss == ConcatSentences(chap_file.data.paragraphs)
  IN  {[kind |-> "no audioFile", path |-> PathOf(chap_file)]
         : k \in {j \in 1..Len(ss) : ss[j].audioFile = ""}}
      \cup
      {[kind |-> "audio file",
        path |-> ExpectedAudioFile(chap_file, ss[k].audioFile)]
         : k \in {j \in 1..Len(ss) :
                    /\ ss[j].audioFile # ""
                    /\ ExpectedAudioFile(chap_file, ss[j].audioFile)
                         \notin audio_}}

\* What verify_files reports for one language folder (lines 205-246).
MissingOfLanguage(lang, fs, unreadable, audio_dirs_, audio_) ==
  IF \A dir \in audio_dirs_ : dir[1] # lang
  THEN {[kind |-> "Audio folder", path |-> <<lang, "Audio">>]}
  ELSE {[kind |-> "unreadable", path |-> PathOf(f)]
          : f \in {g \in fs : g.lang = lang /\ g \in unreadable}}
       \cup UNION {MissingOfChapter(f, audio_)
                     : f \in {g \in fs : g.lang = lang /\ g \notin unreadable}}

\* verify_files: everything it reports as missing.  The language folders
\* are those named like a language code; each of them has a Content folder
\* here.
verify_files(structure_, fs, unreadable, audio_dirs_, audio_) ==
  (IF structure_ = <<>>
   THEN {[kind |-> "structure", path |-> <<>>]} ELSE {})
  \cup UNION {MissingOfLanguage(lang, fs, unreadable, audio_dirs_, audio_)
                : lang \in {f.lang : f \in {g \in fs :
                                              IsLanguageFolder(g.lang)}}}

\* Stage 10: main of 10-verify-files.py, once stage 8 is over.  Any of the
\* chapter files may fail to be read.
VerifyFiles ==
  /\ pc = "audio_done"
  /\ \E unreadable \in SUBSET AllContentFiles :
       missing_files' = <<verify_files(structure, AllContentFiles,
                                       unreadable, audio_dirs, audio)>>
  /\ pc' = "verified"
  /\ UNCHANGED <<extractVars, segmentVars, translateVars, assembleVars,
                 callVars, audio_queue, audio_json, audio_cursor, attempts,
                 audio_dirs, audio, audio_unread>>

\* The lines of the chapter bodies of the books stage 8 is run on.
AudioAlphabet == {BlankLine, Line("TEXT", "Third one here.", <<"Third one here.">>)}

\* Stages 7, 8 and 10 in a row on a book of one CHAPTER marker and at most
\* MaxAudioBody body lines, translated into one language.
InitAudio ==
  /\ \E n \in 0..MaxAudioBody :
       \E b \in [1..n -> AudioAlphabet] : SegmentedBook(b)
  /\ target_language_codes = <<"es-ES">>
  /\ TranslateIdle
  /\ structure = <<>>
  /\ AudioIdle /\ CallsIdle

NextAudio ==
  \/ TranslateStart
  \/ \E read \in JsonReadOutcomes : TranslateOpenFile(read)
  \/ TranslateCopy
  \/ \E response \in Responses : TranslateSentence(response)
  \/ TranslateWrite
  \/ TranslateFileDone
  \/ TranslateFinish
  \/ AudioStart
  \/ \E read \in JsonReadOutcomes : AudioOpenFile(read)
  \/ AudioSkipSentence
  \/ \E outcome \in SynthesisOutcomes : AudioSentence(outcome)
  \/ AudioFileDone
  \/ AudioFinish
  \/ VerifyFiles

SpecAudio == InitAudio /\ [][NextAudio]_vars

(***************************************************************************)
(* Properties of stage 8 and stage 10.                                     *)
(***************************************************************************)
\* The positions, in record order, of the sentences of a content file that
\* have text and an audio file name.
RECURSIVE EligibleFrom(_, _)
EligibleFrom(ss, k) ==
  IF k > Len(ss) THEN <<>>
  ELSE (IF HasTextAndName(ss[k]) THEN <<k>> ELSE <<>>)
         \o EligibleFrom(ss, k + 1)

Eligible(f) == EligibleFrom(ConcatSentences(f.data.paragraphs), 1)

\* The positions of the sentences of content file f for which
\* generate_audio was called, in the order of the calls.
AttemptedOf(f) ==
  LET mine == SelectSeq(attempts, LAMBDA a : a.file = PathOf(f))
  IN  [i \in 1..Len(mine) |-> mine[i].at]

\* Stage 8 is through with content file f.
AudioProcessed(f) ==
  /\ f \notin audio_queue
  /\ audio_json # <<f>>
  /\ pc \in {"audio", "synth", "audio_done", "verified"}

\* C21: in the audio generator a failed synthesis does not abort the
\* sentences after it, and a chapter file that cannot be read does not stop
\* the other files: for every chapter file that was read, synthesis is
\* attempted exactly once for each sentence with non-empty text and
\* non-empty audioFile, in record order, whatever the outcomes; after every
\* attempt the loop stands at the next sentence; and the run ends with
\* every file visited.
C21_SynthesisFailureDoesNotAbort ==
  /\ [](\A f \in AllContentFiles :
          /\ AudioProcessed(f) =>
               AttemptedOf(f) = IF PathOf(f) \in audio_unread THEN <<>>
                                ELSE Eligible(f)
          /\ audio_json = <<f>> =>
               AttemptedOf(f)
                 = EligibleFrom(SubSeq(AudioSentences, 1, audio_cursor - 1), 1))
  /\ [][attempts' # attempts =>
          /\ pc' = "synth"
          /\ audio_cursor' = audio_cursor + 1
          /\ audio_queue' = audio_queue]_vars
  /\ [](pc = "audio_done" => audio_queue = {} /\ audio_json = <<>>)

\* A finished run in which a chapter file could not be read, and in
\* another chapter file the synthesis failed for a sentence and was
\* attempted, with success, for a sentence after it.
C21_Witness ==
  /\ pc = "audio_done"
  /\ audio_unread # {}
  /\ \E i, j \in 1..Len(attempts) :
       /\ i < j
       /\ attempts[i].file = attempts[j].file
       /\ attempts[i].file \notin audio_unread
       /\ attempts[i].outcome = "error"
       /\ attempts[j].outcome = "ok"
       /\ attempts[j].path \in audio

\* Every sentence of every Chapter Record of the language has text.
AllTextNonEmpty(lang) ==
  \A f \in AllContentFiles :
    f.lang = lang =>
      \A k \in 1..Len(ConcatSentences(f.data.paragraphs)) :
        Strip(ConcatSentences(f.data.paragraphs)[k].text) # ""

\* verify_files reports an audio file, or the Audio folder, of the language
\* as missing.
ReportsMissingAudio(lang) ==
  \E m \in missing_files[1] :
    m.kind \in {"audio file", "Audio folder"} /\ m.path[1] = lang

====
